---- MODULE Spec2Model ----
(***************************************************************************)
(* Model of the consultation pipeline of Agent_ai_hospital_recommend:      *)
(*   - ConsultationService.process_consultation                            *)
(*       (src/src/services/consultation_service.py)                        *)
(*   - AdvancedConsultationService.process_full_consultation               *)
(*       (src/src/services/advanced_consultation_service.py)               *)
(*   - the command-line loop and load_and_filter_hospitals                 *)
(*       (src/source/agent_veteran_skin_consultant.py)                     *)
(*   - the chat application (src/app.py)                                   *)
(*   - the reference corpus loader and the PDF server (src/pdf_server.py)  *)
(*                                                                         *)
(* Text is modelled as a sequence of syllables (one element per code       *)
(* point of the Korean source strings, romanised), so that the substring   *)
(* test of the hospital filter is computed, not assumed.                   *)
(***************************************************************************)
EXTENDS Integers, Sequences, FiniteSets, TLC

VARIABLES
    prog,                  \* which entry point is serving the current query
    pc,                    \* position inside that entry point
    queries,               \* number of queries submitted so far
    user_query,            \* the query text (an opaque id)
    simple_mode,           \* process_consultation(simple_mode=...)
    use_advanced_formatter,\* process_consultation(use_advanced_formatter=...)
    csv,                   \* the hospital dataset file: "missing" or rows
    system_prompt_loaded,  \* the template text is held (the services' self._system_prompt;
                           \* the agent: the template file was found at start-up)
    selected_filename,     \* selection_result.selected_filename
    selected_pdf_handle,   \* pdf_handles.get(selected_filename), None when absent
    category_result,       \* the structured ProcedureCategory the model returned
    category,              \* the category used downstream (None when absent)
    hospital_info,         \* the auxiliary text put into the prompt
    final_prompt,          \* the assembled prompt
    current_parts,         \* [user_query] + [handle] when a handle was found
    conversation_history,  \* the list of turns handed to / kept by the entry point
    attempt,               \* loop variable of the retry loop (0-based)
    retry_delay,           \* current backoff delay in seconds
    waits,                 \* durations of the time.sleep calls of this query
    errs,                  \* errors of the generation calls for the assembled prompt
    requests,              \* generation requests sent for this query, in order
    response,              \* response.text of the successful generation call
    raised,                \* the exception caught by the outer handler
    fallback_taken,        \* the reduced-context path ran for this query
    process_log,           \* process_full_consultation's process_log
    result_text,           \* the text returned / printed for the query
    df, f_category, f_result, f_done,  \* inputs and output of the filter function
    p_template, p_hospital, p_history, \* inputs of the prompt assembly on text
    p_result, p_done,                  \* the assembled prompt text
    messages,              \* st.session_state.messages of the chat application
    pdf_server_status,     \* result of check_pdf_server() of the current run
    app_inputs,            \* chat inputs handled so far
    app_event,             \* what the last run of the script handled
    app_prompt,            \* final_prompt of the last full-mode call (<<>> if none)
    fmt_raw,               \* response.text handed to a formatter
    fmt_entry,             \* the formatter entry point that ran ("none" before)
    fmt_filename,          \* selected_filename given to the formatter
    fmt_category,          \* category given to the formatter
    fmt_parsed,            \* outcome of the formatter's json.loads
    fmt_out,               \* the text the formatter returned, or what it raised
    directory,             \* the textbook directory: missing, or its files in walk order
    provider,              \* the upload provider: API key, repeatability, failing files
    runs,                  \* the runs of the corpus loader so far, in order
    srv_started,           \* pdf_server: the startup event has completed
    srv_loading,           \* pdf_server: the handler whose loader is running, and
                           \* that loader's locals
    pdf_cache,             \* pdf_server's global pdf_cache
    srv_reply,             \* the reply to the last request to pdf_server
    svc_pdf_handles,       \* ConsultationService._pdf_handles (None before first use)
                           \* and the callers between its test and its store
    agent_main             \* the command-line program's start-up, the locals of its
                           \* loader and its pdf_handles_dict

vars == <<prog, pc, queries, user_query, simple_mode, use_advanced_formatter,
          csv, system_prompt_loaded, selected_filename, selected_pdf_handle,
          category_result, category, hospital_info, final_prompt, current_parts,
          conversation_history, attempt, retry_delay, waits, errs, requests,
          response, raised, fallback_taken, process_log, result_text,
          df, f_category, f_result, f_done,
          p_template, p_hospital, p_history, p_result, p_done,
          messages, pdf_server_status, app_inputs, app_event, app_prompt,
          fmt_raw, fmt_entry, fmt_filename, fmt_category, fmt_parsed, fmt_out,
          directory, provider, runs, srv_started, srv_loading, pdf_cache, srv_reply,
          svc_pdf_handles, agent_main>>

pipeVars == <<prog, pc, queries, user_query, simple_mode, use_advanced_formatter,
          csv, system_prompt_loaded, selected_filename, selected_pdf_handle,
          category_result, category, hospital_info, final_prompt, current_parts,
          conversation_history, attempt, retry_delay, waits, errs, requests,
          response, raised, fallback_taken, process_log, result_text>>

filterVars == <<df, f_category, f_result, f_done>>

promptTextVars == <<p_template, p_hospital, p_history, p_result, p_done>>

appVars == <<messages, pdf_server_status, app_inputs, app_event, app_prompt>>

fmtVars == <<fmt_raw, fmt_entry, fmt_filename, fmt_category, fmt_parsed, fmt_out>>

loadVars == <<directory, provider, runs, srv_started, srv_loading, pdf_cache, srv_reply,
             svc_pdf_handles, agent_main>>

\* the variables of the components outside the pipelines and the filter
extVars == <<promptTextVars, appVars, fmtVars, loadVars>>

-----------------------------------------------------------------------------
(* Bounds of the model *)

MaxRows == 6        \* longest dataset the filter function is applied to
MaxQueries == 2     \* queries per session

-----------------------------------------------------------------------------
(* Text and optional values *)

NoneStr == [some |-> FALSE, val |-> <<>>]       \* Python None / NaN for a str
Some(s) == [some |-> TRUE, val |-> s]
Truthy(o) == o.some /\ o.val # <<>>             \* Python truthiness of Optional[str]

\* a filename is [stem, ext]; a handle names the uploaded file and the
\* provider's serial number of the upload
NoFilename == [stem |-> "", ext |-> ""]
NoHandle == [file |-> [dir |-> "", stem |-> "", ext |-> ""], serial |-> 0]
NoErr == "NoErr"

\* s contains sub as a contiguous substring (Python `sub in s`, sub non-empty;
\* pandas str.contains on a pattern without regex metacharacters)
Contains(s, sub) ==
    \E i \in 0..(Len(s) - Len(sub)) : SubSeq(s, i + 1, i + Len(sub)) = sub

Head_n(s, n) == SubSeq(s, 1, IF n <= Len(s) THEN n ELSE Len(s))    \* DataFrame.head(n)

\* df[df[...].str.contains(cat, na=False)]: the rows of s whose category
\* field contains cat, in order. read_csv types a column that holds no string
\* in any of its rows as float64, and the .str accessor of such a column
\* raises AttributeError; a file without rows keeps an object column.
SelectSeq2(s, cat) ==
    LET RECURSIVE mask(_)
        mask(t) ==
            IF t = <<>> THEN <<>>
            ELSE LET r == Head(t)
                     rest == mask(Tail(t))
                 IN IF r.category.some /\ Contains(r.category.val, cat)
                    THEN <<r>> \o rest ELSE rest
    IN IF s # <<>> /\ \A i \in 1..Len(s) : ~s[i].category.some
       THEN [raised |-> "AttributeError", rows |-> <<>>]
       ELSE [raised |-> NoErr, rows |-> mask(s)]

-----------------------------------------------------------------------------
(* Program constants *)

PIL_LEO == <<"pil", "leo">>                 \* "필러"
BO_TOK_SEU == <<"bo", "tok", "seu">>        \* "보톡스"
JE_MO == <<"je", "mo">>                     \* "제모"

PROCEDURE_CATEGORIES ==
    {PIL_LEO, BO_TOK_SEU, <<"mo", "bal", "i", "sik">>,    \* ..., "모발이식",
     JE_MO, <<"pi", "bu">>, <<"ri", "peu", "ting">>}     \* ..., "피부", "리프팅"

max_retries == 3
initial_retry_delay == 2
filter_head == 5        \* filtered_df.head(5)
service_head == 10      \* df.head(10)

-----------------------------------------------------------------------------
(* The hospital dataset and the auxiliary data filter *)

\* A dataset file: missing, or a table of rows. A row keeps its position in
\* the file as its name; its category field is a string or NaN (NoneStr).
MissingFile == [exists |-> FALSE, rows |-> <<>>]
FileOf(rows) == [exists |-> TRUE, rows |-> rows]

AuxText(kind, cat, rows, err) ==
    [kind |-> kind, cat |-> cat, rows |-> rows, err |-> err]

\* load_and_filter_hospitals with the filter applied after the truncation
load_and_filter_hospitals_head_first(file, cat) ==
    IF ~Truthy(cat) THEN AuxText("cannot_filter", NoneStr, <<>>, NoErr)
    ELSE IF ~file.exists THEN AuxText("file_missing", NoneStr, <<>>, NoErr)
    ELSE LET filtered_df == SelectSeq2(Head_n(file.rows, filter_head), cat.val)
         IN IF filtered_df.raised # NoErr
            THEN AuxText("raised", NoneStr, <<>>, filtered_df.raised)
            ELSE IF filtered_df.rows = <<>>
            THEN AuxText("no_match", cat, <<>>, NoErr)
            ELSE AuxText("table", NoneStr, filtered_df.rows, NoErr)

\* load_and_filter_hospitals(csv_path, category) of the command-line agent.
\* Only FileNotFoundError is handled: the AttributeError of the .str accessor
\* leaves the function (kind "raised", nothing is returned).
load_and_filter_hospitals(file, cat) ==
    IF ~Truthy(cat) THEN AuxText("cannot_filter", NoneStr, <<>>, NoErr)
    ELSE IF ~file.exists THEN AuxText("file_missing", NoneStr, <<>>, NoErr)
    ELSE LET filtered_df == SelectSeq2(file.rows, cat.val)
         IN IF filtered_df.raised # NoErr
            THEN AuxText("raised", NoneStr, <<>>, filtered_df.raised)
            ELSE IF filtered_df.rows = <<>>
            THEN AuxText("no_match", cat, <<>>, NoErr)
            ELSE AuxText("table", NoneStr, Head_n(filtered_df.rows, filter_head), NoErr)

\* ConsultationService._load_and_filter_hospitals(category): the category is
\* not used; the first 10 rows are rendered, a read error becomes text.
service_load_and_filter_hospitals(file, cat) ==
    IF ~file.exists
    THEN AuxText("load_failed", NoneStr, <<>>, "FileNotFoundError")
    ELSE AuxText("info_lines", NoneStr, Head_n(file.rows, service_head), NoErr)

\* hospital_info of process_full_consultation: a fixed placeholder string
advanced_hospital_info == AuxText("loading_placeholder", NoneStr, <<>>, NoErr)

\* Inputs of the filter function
FilterCategories == { NoneStr, Some(<<>>), Some(PIL_LEO), Some(BO_TOK_SEU), Some(JE_MO) }

\* the datasets of at most n rows; the category field of a row holds one
\* category, two of them, or nothing (NaN)
Tables(n) ==
    LET RowCategories ==
            { Some(PIL_LEO), Some(BO_TOK_SEU), Some(BO_TOK_SEU \o <<",">> \o PIL_LEO), NoneStr }
    IN UNION { { [i \in 1..k |-> [name |-> i, category |-> f[i]]] : f \in [1..k -> RowCategories] }
               : k \in 0..n }

IdleFilter == df = MissingFile /\ f_category = NoneStr
              /\ f_result = AuxText("none", NoneStr, <<>>, NoErr) /\ f_done = FALSE

-----------------------------------------------------------------------------
(* Inputs of the pipelines: what the environment (the hosted model, the    *)
(* file system) may answer                                                 *)

Queries == {"q1", "q2"}

\* pdf_summaries keys the selector is shown, and a name it may invent
Filenames == {[stem |-> "fillers", ext |-> "pdf"], [stem |-> "unknown", ext |-> "pdf"]}

\* errors of a remote call; the first is transient, the second is not
Errors == {"RateLimited", "InvalidRequest"}
Transient(e) == e = "RateLimited"

\* category strings the classifier may return, inside and outside the set
\* (<<"nun", "seong", "hyeong">> is no member of PROCEDURE_CATEGORIES)
CategoryOutputs == {PIL_LEO, BO_TOK_SEU, <<"nun", "seong", "hyeong">>, <<>>}

\* response.text values of the generation endpoint
RawResponses == {"JSON", "FENCED_JSON", "NOT_JSON", "EMPTY"}

\* the dataset files of the pipelines
PipelineFiles ==
    { MissingFile,
      FileOf(<< [name |-> 1, category |-> Some(BO_TOK_SEU)],
                [name |-> 2, category |-> Some(PIL_LEO)] >>),
      FileOf(<< [name |-> 1, category |-> NoneStr] >>) }

\* conversation_history arguments handed to the service entry points
Turn(role, content) == [role |-> role, content |-> content]
Histories == { <<>>, << Turn("user", <<"q0">>), Turn("assistant", <<"a0">>) >> }

-----------------------------------------------------------------------------
(* Values built by the pipelines *)

NoCategoryResult == [is_detected |-> FALSE, category |-> <<>>]

\* a prompt: the template with its three slots filled, or the simple prompt
Prompt(kind, query, hospital, photos, history) ==
    [kind |-> kind, query |-> query, hospital_list |-> hospital,
     submitted_photos |-> photos, conversation_history |-> history]

NoAux == AuxText("none", NoneStr, <<>>, NoErr)
NoPrompt == Prompt("none", "", NoAux, "", <<>>)

\* self.system_prompt.replace(HOSPITAL_LIST, ..).replace(SUBMITTED_PHOTOS, ..)
\*                   .replace(CONVERSATION_HISTORY, str(conversation_history))
AssemblePrompt(hospital, history) ==
    Prompt("full", "", hospital, "no_images_submitted", history)

\* load_prompt_from_file(filepath) of the command-line agent: the text of the
\* template file, or the one-sentence default prompt when the file is missing
load_prompt_from_file(found) == IF found THEN "template" ELSE "default_prompt"

\* the f-string simple_prompt of _simple_consultation
SimplePrompt(query) == Prompt("simple", query, NoAux, "", <<>>)

\* a request to client.models.generate_content
GenRequest(model, contents, attachment, max_tokens) ==
    [model |-> model, contents |-> contents, attachment |-> attachment,
     temperature |-> "TEMPERATURE", max_output_tokens |-> max_tokens]

\* a text handed back to the caller: its wrapper, the model text it embeds
\* and the error string it embeds (NoErr when none)
Text(kind, body, err) == [kind |-> kind, body |-> body, err |-> err]
NoText == Text("none", "", NoErr)

NoLog == [steps |-> {}, category |-> NoneStr, category_filter |-> NoneStr,
          success |-> "unset", error |-> NoErr]

envVars == <<prog, csv, system_prompt_loaded>>
queryVars == <<queries, user_query, simple_mode, use_advanced_formatter>>
selVars == <<selected_filename, selected_pdf_handle>>
catVars == <<category_result, category>>
promptVars == <<hospital_info, final_prompt, current_parts>>
retryVars == <<attempt, retry_delay, waits, errs>>

\* the per-query variables as a new query finds them
FreshQuery ==
    /\ selected_filename' = NoFilename
    /\ selected_pdf_handle' = NoHandle
    /\ category_result' = NoCategoryResult
    /\ category' = NoneStr
    /\ hospital_info' = NoAux
    /\ final_prompt' = NoPrompt
    /\ current_parts' = <<>>
    /\ attempt' = 0
    /\ retry_delay' = 0
    /\ waits' = <<>>
    /\ errs' = <<>>
    /\ requests' = <<>>
    /\ response' = ""
    /\ raised' = NoErr
    /\ fallback_taken' = FALSE
    /\ process_log' = NoLog
    /\ result_text' = NoText

\* the call has returned (the loop is back at its top): its arguments and
\* locals are not read again
EndOfCall ==
    /\ FreshQuery
    /\ user_query' = ""
    /\ simple_mode' = FALSE
    /\ use_advanced_formatter' = TRUE

-----------------------------------------------------------------------------
(* ConsultationService (src/src/services/consultation_service.py) *)

\* a lookup that answers with some cached handle when the key is absent
dict_get_any(d, k) ==
    IF k \in DOMAIN d.at THEN d.at[k]
    ELSE IF DOMAIN d.at # {} THEN d.at[CHOOSE x \in DOMAIN d.at : TRUE] ELSE NoHandle

\* pdf_handles.get(selected_filename) on a dict
dict_get(d, k) == IF k \in DOMAIN d.at THEN d.at[k] ELSE NoHandle

\* category = category_result.category if category_result.is_detected else None
CategoryOf(res) == IF res.is_detected THEN Some(res.category) ELSE NoneStr

\* current_parts = [user_query]; if selected_pdf_handle: append(handle)
PartsOf(query, handle) ==
    IF handle # NoHandle THEN <<query, handle>> ELSE <<query>>

\* the retry test with the cap itself allowed to retry
ShouldRetryInclusive(n) == n <= max_retries - 1

\* if attempt < max_retries - 1: sleep and retry, else raise
ShouldRetry(n) == n < max_retries - 1

\* a backoff that never grows
NextDelayConstant(d) == d

\* retry_delay *= 2
NextDelay(d) == d * 2

\* AdvancedResponseFormatter.format_consultation_response(raw): json.loads of
\* the raw text, rendering, every exception turned into an error text
format_consultation_response(raw) ==
    IF raw = "JSON" THEN Text("advanced_formatted", raw, NoErr)
    ELSE Text("format_error", "", "JSONDecodeError")

\* the text _simple_consultation returns for an answer of the model
simple_answer_text(answer, adv) ==
    IF adv THEN Text("simple_formatted", answer, NoErr)
    ELSE Text("simple_raw", answer, NoErr)

\* the outer handler of process_consultation: the exception is caught and
\* _simple_consultation is called with the same query
PC_Raise(e) ==
    /\ raised' = e
    /\ fallback_taken' = TRUE
    /\ pc' = "simple"

\* process_consultation(user_query, conversation_history, use_advanced_formatter, simple_mode)
PC_Start(q, h, adv, sm) ==
    /\ prog = "consultation" /\ pc = "idle" /\ queries < MaxQueries
    /\ FreshQuery
    /\ queries' = queries + 1
    /\ user_query' = q
    /\ conversation_history' = h
    /\ use_advanced_formatter' = adv
    /\ simple_mode' = sm
    /\ pc' = IF sm THEN "simple" ELSE "select"
    /\ UNCHANGED <<envVars, filterVars, extVars>>

\* step 1: the selector chain answers and selected_filename is assigned;
\* the call is now at the read of self.pdf_handles, whose getter is the
\* actions Svc_PdfHandles, Svc_Upload and Svc_PdfHandles_Store run by this
\* call as the caller "first"
PC_SelectPdfOk(fn) ==
    /\ prog = "consultation" /\ pc = "select"
    /\ selected_filename' = fn
    /\ pc' = "pdf_handles"
    /\ UNCHANGED <<envVars, queryVars, selected_pdf_handle, catVars, promptVars, retryVars,
                   conversation_history, requests, response, raised,
                   fallback_taken, process_log, result_text, filterVars, extVars>>

\* step 1: the getter returns self._pdf_handles, the mapping stored last
\* (this call's own or another caller's), and the handle is looked up in it
PC_PdfHandlesGet ==
    /\ prog = "consultation" /\ pc = "pdf_handles"
    /\ svc_pdf_handles.loaded
    /\ "first" \notin DOMAIN svc_pdf_handles.loading
    /\ selected_pdf_handle' = dict_get(svc_pdf_handles.map, selected_filename)
    /\ pc' = "classify"
    /\ UNCHANGED <<envVars, queryVars, selected_filename, catVars, promptVars, retryVars,
                   conversation_history, requests, response, raised,
                   fallback_taken, process_log, result_text, filterVars, extVars>>

\* step 1: the selector chain raises
PC_SelectPdfFail(e) ==
    /\ prog = "consultation" /\ pc = "select"
    /\ PC_Raise(e)
    /\ UNCHANGED <<envVars, queryVars, selVars, catVars, promptVars, retryVars,
                   conversation_history, requests, response,
                   process_log, result_text, filterVars, extVars>>

\* step 2: the category chain answers
PC_ExtractCategoryOk(det, cat) ==
    /\ prog = "consultation" /\ pc = "classify"
    /\ category_result' = [is_detected |-> det, category |-> cat]
    /\ category' = CategoryOf(category_result')
    /\ pc' = "hospitals"
    /\ UNCHANGED <<envVars, queryVars, selVars, promptVars, retryVars,
                   conversation_history, requests, response, raised,
                   fallback_taken, process_log, result_text, filterVars, extVars>>

\* step 2: the category chain raises
PC_ExtractCategoryFail(e) ==
    /\ prog = "consultation" /\ pc = "classify"
    /\ PC_Raise(e)
    /\ UNCHANGED <<envVars, queryVars, selVars, catVars, promptVars, retryVars,
                   conversation_history, requests, response,
                   process_log, result_text, filterVars, extVars>>

\* steps 3-5: hospital text, prompt assembly (the template is read from
\* its file unless self._system_prompt holds it), current_parts, loop set-up
PC_PreparePrompt ==
    /\ prog = "consultation" /\ pc = "hospitals"
    /\ hospital_info' = service_load_and_filter_hospitals(csv, category)
    /\ system_prompt_loaded' = TRUE
    /\ final_prompt' = AssemblePrompt(hospital_info', conversation_history)
    /\ current_parts' = PartsOf(user_query, selected_pdf_handle)
    /\ attempt' = 0
    /\ retry_delay' = initial_retry_delay
    /\ pc' = "generate"
    /\ UNCHANGED <<prog, csv, queryVars, selVars, catVars, waits, errs,
                   conversation_history, requests, response, raised,
                   fallback_taken, process_log, result_text, filterVars, extVars>>

\* step 4: the template file cannot be read (_load_prompt_from_file raises)
PC_LoadPromptFail ==
    /\ prog = "consultation" /\ pc = "hospitals" /\ ~system_prompt_loaded
    /\ hospital_info' = service_load_and_filter_hospitals(csv, category)
    /\ PC_Raise("FileNotFoundError")
    /\ UNCHANGED <<envVars, queryVars, selVars, catVars, final_prompt, current_parts,
                   retryVars, conversation_history, requests, response,
                   process_log, result_text, filterVars, extVars>>

\* the request of the retry loop: contents=final_prompt, max_output_tokens=2048
PC_Request == GenRequest("GEMINI_MODEL", final_prompt, NoHandle, 2048)

\* one iteration of the retry loop whose generate_content call succeeds
PC_GenerateOk(r) ==
    /\ prog = "consultation" /\ pc = "generate"
    /\ requests' = Append(requests, PC_Request)
    /\ response' = r
    /\ pc' = "format"
    /\ UNCHANGED <<envVars, queryVars, selVars, catVars, promptVars, retryVars,
                   conversation_history, raised, fallback_taken,
                   process_log, result_text, filterVars, extVars>>

\* one iteration of the retry loop whose generate_content call raises: the
\* handler either calls time.sleep(retry_delay), in which the call blocks,
\* or raises the error out of the loop
PC_GenerateFail(e) ==
    /\ prog = "consultation" /\ pc = "generate"
    /\ requests' = Append(requests, PC_Request)
    /\ errs' = Append(errs, e)
    /\ IF ShouldRetry(attempt)
       THEN /\ waits' = Append(waits, retry_delay)
            /\ pc' = "backoff"
            /\ UNCHANGED <<raised, fallback_taken>>
       ELSE /\ PC_Raise(e)
            /\ UNCHANGED waits
    /\ UNCHANGED <<envVars, queryVars, selVars, catVars, promptVars, attempt, retry_delay,
                   conversation_history, response,
                   process_log, result_text, filterVars, extVars>>

\* time.sleep returns: retry_delay *= 2 and the loop goes to its next
\* iteration
PC_Backoff ==
    /\ prog = "consultation" /\ pc = "backoff"
    /\ retry_delay' = NextDelay(retry_delay)
    /\ IF attempt + 1 < max_retries
       THEN /\ attempt' = attempt + 1
            /\ pc' = "generate"
            /\ UNCHANGED <<raised, fallback_taken>>
       ELSE \* range(max_retries) is used up: response is unbound
            /\ attempt' = attempt
            /\ PC_Raise("UnboundLocalError")
    /\ UNCHANGED <<envVars, queryVars, selVars, catVars, promptVars, waits, errs,
                   conversation_history, requests, response,
                   process_log, result_text, filterVars, extVars>>

\* step 6 with use_advanced_formatter
PC_FormatAdvanced ==
    /\ prog = "consultation" /\ pc = "format" /\ use_advanced_formatter
    /\ result_text' = format_consultation_response(response)
    /\ pc' = "done"
    /\ UNCHANGED <<envVars, queryVars, selVars, catVars, promptVars, retryVars,
                   conversation_history, requests, response, raised,
                   fallback_taken, process_log, filterVars, extVars>>

\* step 6 without it: ResponseFormatterChain.format_response, the chain answers
PC_FormatSimpleOk ==
    /\ prog = "consultation" /\ pc = "format" /\ ~use_advanced_formatter
    /\ result_text' = Text("llm_formatted", "friendly_text", NoErr)
    /\ pc' = "done"
    /\ UNCHANGED <<envVars, queryVars, selVars, catVars, promptVars, retryVars,
                   conversation_history, requests, response, raised,
                   fallback_taken, process_log, filterVars, extVars>>

\* ResponseFormatterChain.format_response, the chain raises
PC_FormatSimpleFail(e) ==
    /\ prog = "consultation" /\ pc = "format" /\ ~use_advanced_formatter
    /\ result_text' = Text("llm_format_failed", "", e)
    /\ pc' = "done"
    /\ UNCHANGED <<envVars, queryVars, selVars, catVars, promptVars, retryVars,
                   conversation_history, requests, response, raised,
                   fallback_taken, process_log, filterVars, extVars>>

\* the request of _simple_consultation: contents=simple_prompt
Simple_Request == GenRequest("GEMINI_MODEL", SimplePrompt(user_query), NoHandle, 0)

\* _simple_consultation, the generation call answers
PC_SimpleOk(answer) ==
    /\ prog = "consultation" /\ pc = "simple"
    /\ requests' = Append(requests, Simple_Request)
    /\ result_text' = simple_answer_text(answer, use_advanced_formatter)
    /\ pc' = "done"
    /\ UNCHANGED <<envVars, queryVars, selVars, catVars, promptVars, retryVars,
                   conversation_history, response, raised,
                   fallback_taken, process_log, filterVars, extVars>>

\* _simple_consultation, the generation call raises: its own handler returns
\* the error as text, so the handler of process_consultation at lines 269-271
\* never runs
PC_SimpleFail(e) ==
    /\ prog = "consultation" /\ pc = "simple"
    /\ requests' = Append(requests, Simple_Request)
    /\ result_text' = Text("simple_failed", "", e)
    /\ pc' = "done"
    /\ UNCHANGED <<envVars, queryVars, selVars, catVars, promptVars, retryVars,
                   conversation_history, response, raised,
                   fallback_taken, process_log, filterVars, extVars>>

\* the text is returned to the caller
PC_Return ==
    /\ prog = "consultation" /\ pc = "done"
    /\ EndOfCall
    /\ conversation_history' = <<>>
    /\ pc' = "idle"
    /\ UNCHANGED <<envVars, queries, filterVars, extVars>>

-----------------------------------------------------------------------------
(* AdvancedConsultationService.process_full_consultation                   *)
(* (src/src/services/advanced_consultation_service.py)                     *)

JEON_CHE == <<"jeon", "che">>       \* "전체", the label used when no category

\* process_log["steps"][name] = ...
LogStep(log, name) == [log EXCEPT !.steps = @ \cup {name}]

\* the except branch: error and success=False are logged, the canned
\* simple-mode text is the answer
AdvFailLog(log, e) == [log EXCEPT !.error = e, !.success = "false"]
AdvFallbackText == Text("canned_fallback", "", NoErr)

\* removal of the ```json fence around the response text
strip_fence(raw) == IF raw = "FENCED_JSON" THEN "JSON" ELSE IF raw = "EMPTY" THEN "" ELSE raw

\* steps 7 and 8 on a non-empty cleaned response: json.loads, then
\* format_consultation_json_to_chat on the parsed data or on {"raw_response": ..}
adv_format(cleaned) ==
    IF cleaned = "JSON" THEN Text("chat_formatted", cleaned, NoErr)
    ELSE Text("chat_formatted_raw_response_dict", "", NoErr)

Adv_Request == GenRequest("GEMINI_MODEL", final_prompt, NoHandle, 0)

\* process_full_consultation(user_query, conversation_history)
Adv_Start(q, h) ==
    /\ prog = "advanced" /\ pc = "idle" /\ queries < MaxQueries
    /\ FreshQuery
    /\ queries' = queries + 1
    /\ user_query' = q
    /\ conversation_history' = h
    /\ pc' = "status"
    /\ UNCHANGED <<envVars, simple_mode, use_advanced_formatter, filterVars, extVars>>

\* step 1: the status probe answers {"status": "running"}
Adv_StatusRunning ==
    /\ prog = "advanced" /\ pc = "status"
    /\ process_log' = LogStep(process_log, "1_pdf_server_status")
    /\ pc' = "select"
    /\ UNCHANGED <<envVars, queryVars, selVars, catVars, promptVars, retryVars,
                   conversation_history, requests, response, raised,
                   fallback_taken, result_text, filterVars, extVars>>

\* step 1: the probe fails or answers another status: the step raises
Adv_StatusError ==
    /\ prog = "advanced" /\ pc = "status"
    /\ process_log' = AdvFailLog(LogStep(process_log, "1_pdf_server_status"),
                                 "PdfServerConnectionFailed")
    /\ raised' = "PdfServerConnectionFailed"
    /\ fallback_taken' = TRUE
    /\ result_text' = AdvFallbackText
    /\ pc' = "done"
    /\ UNCHANGED <<envVars, queryVars, selVars, catVars, promptVars, retryVars,
                   conversation_history, requests, response, filterVars, extVars>>

\* step 2: the selector chain answers
Adv_SelectPdfOk(fn) ==
    /\ prog = "advanced" /\ pc = "select"
    /\ selected_filename' = fn
    /\ process_log' = LogStep(process_log, "2_pdf_selection")
    /\ pc' = "classify"
    /\ UNCHANGED <<envVars, queryVars, selected_pdf_handle, catVars, promptVars,
                   retryVars, conversation_history, requests, response, raised,
                   fallback_taken, result_text, filterVars, extVars>>

\* a remote call of steps 2, 3 or 6 raises: the except branch answers
Adv_Except(e) ==
    /\ process_log' = AdvFailLog(process_log, e)
    /\ raised' = e
    /\ fallback_taken' = TRUE
    /\ result_text' = AdvFallbackText
    /\ pc' = "done"

\* step 2: the selector chain raises
Adv_SelectPdfFail(e) ==
    /\ prog = "advanced" /\ pc = "select"
    /\ Adv_Except(e)
    /\ UNCHANGED <<envVars, queryVars, selVars, catVars, promptVars, retryVars,
                   conversation_history, requests, response, filterVars, extVars>>

\* steps 3-5: the category chain answers; the category is logged, the
\* hospital text is the placeholder, the prompt is assembled
Adv_ExtractCategoryOk(det, cat) ==
    /\ prog = "advanced" /\ pc = "classify"
    /\ category_result' = [is_detected |-> det, category |-> cat]
    /\ category' = CategoryOf(category_result')
    /\ hospital_info' = advanced_hospital_info
    /\ system_prompt_loaded' = TRUE
    /\ final_prompt' = AssemblePrompt(hospital_info', conversation_history)
    /\ process_log' =
          [ LogStep(LogStep(LogStep(process_log, "3_category_extraction"),
                            "4_hospital_info"), "5_prompt_preparation")
            EXCEPT !.category = CategoryOf(category_result'),
                   !.category_filter = IF det THEN Some(cat) ELSE Some(JEON_CHE) ]
    /\ pc' = "generate"
    /\ UNCHANGED <<prog, csv, queryVars, selVars, current_parts, retryVars,
                   conversation_history, requests, response, raised,
                   fallback_taken, result_text, filterVars, extVars>>

\* steps 3-5: the category chain answers, steps 3 and 4 are logged, and the
\* template file cannot be read (the system_prompt property raises)
Adv_LoadPromptFail(det, cat) ==
    /\ prog = "advanced" /\ pc = "classify" /\ ~system_prompt_loaded
    /\ category_result' = [is_detected |-> det, category |-> cat]
    /\ category' = CategoryOf(category_result')
    /\ hospital_info' = advanced_hospital_info
    /\ process_log' =
          AdvFailLog([ LogStep(LogStep(process_log, "3_category_extraction"), "4_hospital_info")
                       EXCEPT !.category = CategoryOf(category_result'),
                              !.category_filter = IF det THEN Some(cat) ELSE Some(JEON_CHE) ],
                     "FileNotFoundError")
    /\ raised' = "FileNotFoundError"
    /\ fallback_taken' = TRUE
    /\ result_text' = AdvFallbackText
    /\ pc' = "done"
    /\ UNCHANGED <<envVars, queryVars, selVars, final_prompt, current_parts, retryVars,
                   conversation_history, requests, response, filterVars, extVars>>

\* step 3: the category chain raises
Adv_ExtractCategoryFail(e) ==
    /\ prog = "advanced" /\ pc = "classify"
    /\ Adv_Except(e)
    /\ UNCHANGED <<envVars, queryVars, selVars, catVars, promptVars, retryVars,
                   conversation_history, requests, response, filterVars, extVars>>

\* steps 6-8: the single generate_content call answers; the fence is
\* stripped, an empty response raises, the rest is parsed and formatted
Adv_GenerateOk(r) ==
    /\ prog = "advanced" /\ pc = "generate"
    /\ requests' = Append(requests, Adv_Request)
    /\ response' = r
    /\ IF strip_fence(r) = ""
       THEN /\ process_log' = AdvFailLog(LogStep(process_log, "6_api_call"), "EmptyResponse")
            /\ raised' = "EmptyResponse"
            /\ fallback_taken' = TRUE
            /\ result_text' = AdvFallbackText
       ELSE /\ process_log' =
                 [ LogStep(LogStep(LogStep(process_log, "6_api_call"),
                                   "7_json_parsing"), "8_formatting")
                   EXCEPT !.success = "true" ]
            /\ result_text' = adv_format(strip_fence(r))
            /\ UNCHANGED <<raised, fallback_taken>>
    /\ pc' = "done"
    /\ UNCHANGED <<envVars, queryVars, selVars, catVars, promptVars, retryVars,
                   conversation_history, filterVars, extVars>>

\* step 6: the generate_content call raises: no second attempt is made
Adv_GenerateFail(e) ==
    /\ prog = "advanced" /\ pc = "generate"
    /\ requests' = Append(requests, Adv_Request)
    /\ errs' = Append(errs, e)
    /\ Adv_Except(e)
    /\ UNCHANGED <<envVars, queryVars, selVars, catVars, promptVars,
                   attempt, retry_delay, waits,
                   conversation_history, response, filterVars, extVars>>

\* (process_log, text) is returned to the caller
Adv_Return ==
    /\ prog = "advanced" /\ pc = "done"
    /\ EndOfCall
    /\ conversation_history' = <<>>
    /\ pc' = "idle"
    /\ UNCHANGED <<envVars, queries, filterVars, extVars>>

-----------------------------------------------------------------------------
(* The command-line loop (src/source/agent_veteran_skin_consultant.py)     *)

\* the request of the loop: contents=final_system_prompt, temperature=0.3
Agent_Request == GenRequest("gemini-1.5-flash-latest", final_prompt, NoHandle, 0)

\* a line is read; the loop runs only when the start-up upload found handles
Agent_Start(q) ==
    /\ prog = "agent" /\ pc = "idle" /\ queries < MaxQueries
    /\ agent_main.state = "chat_loop"
    /\ FreshQuery
    /\ queries' = queries + 1
    /\ user_query' = q
    /\ pc' = "select"
    /\ UNCHANGED <<envVars, simple_mode, use_advanced_formatter,
                   conversation_history, filterVars, extVars>>

\* step 1: the selector chain answers; the handle is looked up
Agent_SelectPdfOk(fn) ==
    /\ prog = "agent" /\ pc = "select"
    /\ selected_filename' = fn
    /\ selected_pdf_handle' = dict_get(agent_main.pdf_handles_dict, fn)
    /\ pc' = "classify"
    /\ UNCHANGED <<envVars, queryVars, catVars, promptVars, retryVars,
                   conversation_history, requests, response, raised,
                   fallback_taken, process_log, result_text, filterVars, extVars>>

\* a remote call of the loop raises: nothing catches it, the script ends
Agent_Crash(e) ==
    /\ raised' = e
    /\ pc' = "crashed"

\* step 1: the selector chain raises
Agent_SelectPdfFail(e) ==
    /\ prog = "agent" /\ pc = "select"
    /\ Agent_Crash(e)
    /\ UNCHANGED <<envVars, queryVars, selVars, catVars, promptVars, retryVars,
                   conversation_history, requests, response,
                   fallback_taken, process_log, result_text, filterVars, extVars>>

\* steps 2-4: the category chain answers; the hospitals are filtered, the
\* user turn is appended, the slots of system_prompt_template are replaced.
\* The default prompt has no slot, so the replacements leave it as it is.
\* An exception leaving the filter is not caught: the script ends.
Agent_ExtractCategoryOk(det, cat) ==
    /\ prog = "agent" /\ pc = "classify"
    /\ category_result' = [is_detected |-> det, category |-> cat]
    /\ category' = CategoryOf(category_result')
    /\ LET hospital_info_str == load_and_filter_hospitals(csv, category')
       IN IF hospital_info_str.kind = "raised"
          THEN /\ Agent_Crash(hospital_info_str.err)
               /\ UNCHANGED <<hospital_info, current_parts, conversation_history,
                              final_prompt>>
          ELSE /\ hospital_info' = hospital_info_str
               /\ current_parts' = PartsOf(user_query, selected_pdf_handle)
               /\ conversation_history' =
                      Append(conversation_history, Turn("user", current_parts'))
               /\ final_prompt' =
                      IF load_prompt_from_file(system_prompt_loaded) = "default_prompt"
                      THEN Prompt("default", "", NoAux, "", <<>>)
                      ELSE AssemblePrompt(hospital_info', conversation_history')
               /\ pc' = "generate"
               /\ UNCHANGED raised
    /\ UNCHANGED <<envVars, queryVars, selVars, retryVars,
                   requests, response,
                   fallback_taken, process_log, result_text, filterVars, extVars>>

\* step 2: the category chain raises
Agent_ExtractCategoryFail(e) ==
    /\ prog = "agent" /\ pc = "classify"
    /\ Agent_Crash(e)
    /\ UNCHANGED <<envVars, queryVars, selVars, catVars, promptVars, retryVars,
                   conversation_history, requests, response,
                   fallback_taken, process_log, result_text, filterVars, extVars>>

\* the generate_content call answers; the answer is printed and appended
Agent_GenerateOk(r) ==
    /\ prog = "agent" /\ pc = "generate"
    /\ requests' = Append(requests, Agent_Request)
    /\ response' = r
    /\ result_text' = Text("printed", r, NoErr)
    /\ conversation_history' = Append(conversation_history, Turn("model", <<r>>))
    /\ pc' = "done"
    /\ UNCHANGED <<envVars, queryVars, selVars, catVars, promptVars, retryVars,
                   raised, fallback_taken, process_log, filterVars, extVars>>

\* the generate_content call raises
Agent_GenerateFail(e) ==
    /\ prog = "agent" /\ pc = "generate"
    /\ requests' = Append(requests, Agent_Request)
    /\ errs' = Append(errs, e)
    /\ Agent_Crash(e)
    /\ UNCHANGED <<envVars, queryVars, selVars, catVars, promptVars,
                   attempt, retry_delay, waits,
                   conversation_history, response,
                   fallback_taken, process_log, result_text, filterVars, extVars>>

\* the loop goes back to its top and waits for the next line
Agent_NextIteration ==
    /\ prog = "agent" /\ pc = "done"
    /\ EndOfCall
    /\ pc' = "idle"
    /\ UNCHANGED <<envVars, queries, conversation_history, filterVars, extVars>>

-----------------------------------------------------------------------------
(* The filter function applied to one dataset and one category *)

ApplyFilter ==
    /\ ~f_done
    /\ f_result' = load_and_filter_hospitals(df, f_category)
    /\ f_done' = TRUE
    /\ UNCHANGED <<df, f_category, pipeVars, extVars>>

-----------------------------------------------------------------------------
(* Prompt assembly on text.  A text is a sequence of chunks; a chunk is one *)
(* of the three placeholder tokens or a run of other characters, so that    *)
(* str.replace of a placeholder is the replacement of every chunk equal to  *)
(* it, left to right.                                                       *)

HOSPITAL_LIST == "((HOSPITAL_LIST))"
SUBMITTED_PHOTOS == "((SUBMITTED_PHOTOS))"
CONVERSATION_HISTORY == "((CONVERSATION_HISTORY))"
Placeholders == {HOSPITAL_LIST, SUBMITTED_PHOTOS, CONVERSATION_HISTORY}

RECURSIVE replace(_, _, _)
\* s.replace(old, new): every occurrence of old, left to right, in one pass
replace(s, old, new) ==
    IF s = <<>> THEN <<>>
    ELSE (IF Head(s) = old THEN new ELSE <<Head(s)>>) \o replace(Tail(s), old, new)

\* str(conversation_history) of a list of {"role": .., "content": ..} dicts
str_history(h) ==
    LET str_turn(t) == <<"{'role': '", t.role, "', 'content': '">> \o t.content \o <<"'}">>
        RECURSIVE str_turns(_)
        str_turns(x) ==
            IF x = <<>> THEN <<>>
            ELSE IF Len(x) = 1 THEN str_turn(x[1])
            ELSE str_turn(Head(x)) \o <<", ">> \o str_turns(Tail(x))
    IN <<"[">> \o str_turns(h) \o <<"]">>

\* template.replace("((HOSPITAL_LIST))", hospital_info)
\*         .replace("((SUBMITTED_PHOTOS))", "사용자가 제출한 이미지가 없습니다.")
\*         .replace("((CONVERSATION_HISTORY))", str(conversation_history))
assemble_prompt(template, hospital_info_str, history) ==
    replace(replace(replace(template, HOSPITAL_LIST, hospital_info_str),
                    SUBMITTED_PHOTOS, <<"no_images_submitted">>),
            CONVERSATION_HISTORY, str_history(history))

\* Inputs of the assembly
MaxTemplate == 3        \* longest template, in chunks

\* templates: placeholder tokens and other text, in any order and number
Templates == UNION { [1..k -> Placeholders \cup {"text"}] : k \in 0..MaxTemplate }

\* auxiliary texts: filter messages and rendered rows; hospital names and
\* error texts are data, so a text may spell a placeholder
HospitalTexts ==
    { <<"cannot_filter_message">>, <<"rows">>, <<>>,
      <<"rows", HOSPITAL_LIST>>, <<SUBMITTED_PHOTOS>>, <<CONVERSATION_HISTORY>> }

\* histories: the user's turns are free text, so a turn may spell a placeholder
TextHistories ==
    { <<>>,
      << Turn("user", <<"q1">>) >>,
      << Turn("user", <<"q0">>), Turn("assistant", <<"a0">>), Turn("user", <<"q1">>) >>,
      << Turn("user", <<HOSPITAL_LIST>>) >>,
      << Turn("user", <<"q0">>), Turn("assistant", <<"a0", SUBMITTED_PHOTOS>>), Turn("user", <<"q1">>) >>,
      << Turn("user", <<CONVERSATION_HISTORY>>) >> }

IdlePrompt ==
    /\ p_template = <<>> /\ p_hospital = <<>> /\ p_history = <<>>
    /\ p_result = <<>> /\ p_done = FALSE

\* step 4 / step 5 of the pipelines on one template, text and history
AssembleText ==
    /\ ~p_done
    /\ p_result' = assemble_prompt(p_template, p_hospital, p_history)
    /\ p_done' = TRUE
    /\ UNCHANGED <<p_template, p_hospital, p_history, pipeVars, filterVars, loadVars, appVars, fmtVars>>

-----------------------------------------------------------------------------
(* The chat application (src/app.py).  One run of the script is one action: *)
(* the status probe at the top, then the chat input or a sidebar button.    *)
(* A widget event that arrives while the script runs makes Streamlit raise  *)
(* its rerun exception (a BaseException, which no except Exception of the   *)
(* script catches) inside the next st.* call: the run ends there and the    *)
(* writes it has made to the session state stay.                            *)

\* st.session_state.messages.append({"role": role, "content": content})
append_turn_over_last(msgs, role, content) ==
    IF msgs = <<>> THEN <<Turn(role, content)>>
    ELSE [msgs EXCEPT ![Len(msgs)] = Turn(role, content)]

append_turn(msgs, role, content) == Append(msgs, Turn(role, content))

\* the text st.markdown shows for a returned text: wrapper, model text, error
markdown(t) == <<t.kind, t.body, t.err>>

\* where a run that handles a chat input ends: at its end ("none"), or in
\* the st.* call that echoes the input, before the user turn is stored
\* ("user_echo"), in one between that append and the provider call
\* ("spinner"), or in the one that shows the returned text, before the
\* assistant turn is stored ("answer")
StopPoints == {"none", "user_echo", "spinner", "answer"}

Event(kind, q, sent, stop) ==
    [kind |-> kind, prompt |-> q, prompt_sent |-> sent, stopped |-> stop]

\* the turns stored by a run that handles the chat input q and ends at stop
turns_stored(msgs, q, stop, content) ==
    IF stop = "user_echo" THEN msgs
    ELSE IF stop \in {"spinner", "answer"} THEN append_turn(msgs, "user", <<q>>)
    ELSE append_turn(append_turn(msgs, "user", <<q>>), "assistant", content)

\* check_pdf_server(): True iff GET / answers with status code 200
check_pdf_server(up) == pdf_server_status' = up

\* _simple_consultation(prompt, use_advanced_formatter): the answer, or its
\* own failure text; it raises nothing
simple_consultation(answered, adv, e) ==
    IF answered THEN simple_answer_text("simple_answer", adv)
    ELSE Text("simple_failed", "", e)

\* chat input in simple mode
App_SimpleMode(up, q, adv, answered, e, stop) ==
    /\ app_inputs < MaxQueries
    /\ check_pdf_server(up)
    /\ messages' = turns_stored(messages, q, stop,
                                markdown(simple_consultation(answered, adv, e)))
    /\ app_inputs' = app_inputs + 1
    /\ app_event' = Event("simple", q, FALSE, stop)
    /\ app_prompt' = <<>>
    /\ UNCHANGED <<pipeVars, filterVars, loadVars, promptTextVars, fmtVars>>

\* chat input in full mode while the status probe failed: simple fallback
App_FullModeServerDown(q, adv, answered, e, stop) ==
    /\ app_inputs < MaxQueries
    /\ check_pdf_server(FALSE)
    /\ messages' = turns_stored(messages, q, stop,
                                markdown(simple_consultation(answered, adv, e)))
    /\ app_inputs' = app_inputs + 1
    /\ app_event' = Event("fallback", q, FALSE, stop)
    /\ app_prompt' = <<>>
    /\ UNCHANGED <<pipeVars, filterVars, loadVars, promptTextVars, fmtVars>>

\* the history argument of process_full_consultation
history_argument_before_input(msgs) == SubSeq(msgs, 1, Len(msgs) - 1)

history_argument(msgs) == msgs

\* chat input in full mode with the server up: the user turn is appended,
\* process_full_consultation is called with the session's messages, the
\* returned text (formatted answer or canned fallback) is appended.  The
\* prompt template file holds the three placeholder tokens; hospital_info is
\* the text "병원 정보 로딩 중..."; o says how far the call gets.  A run
\* that ends before the call sends no prompt.  A call that gets to its
\* prompt has read the template file, which the service keeps
\* (_system_prompt).
App_FullMode(q, o, r, stop) ==
    /\ app_inputs < MaxQueries
    /\ check_pdf_server(TRUE)
    /\ LET msgs1 == append_turn(messages, "user", <<q>>)
           called == stop \in {"answer", "none"}
           sent == called /\ o # "fails_before_prompt"
           answered == o = "generate_answers" /\ strip_fence(r) # ""
           text == IF answered THEN adv_format(strip_fence(r)) ELSE AdvFallbackText
       IN /\ app_prompt' = IF ~sent THEN <<>>
                           ELSE assemble_prompt(
                                  <<"persona", HOSPITAL_LIST, "photos:", SUBMITTED_PHOTOS,
                                    "history:", CONVERSATION_HISTORY>>,
                                  <<"hospital_info_loading">>, history_argument(msgs1))
          /\ messages' = turns_stored(messages, q, stop, markdown(text))
          /\ app_event' = Event("full", q, sent, stop)
          /\ system_prompt_loaded' = (system_prompt_loaded \/ sent)
    /\ app_inputs' = app_inputs + 1
    /\ UNCHANGED <<prog, pc, csv, queryVars, selVars, catVars, promptVars,
                   retryVars, conversation_history, requests, response, raised,
                   fallback_taken, process_log, result_text,
                   filterVars, loadVars, promptTextVars, fmtVars>>

\* the "delete chat history" button: messages = [], then the script reruns
App_Reset(up) ==
    /\ check_pdf_server(up)
    /\ messages' = <<>>
    /\ app_event' = Event("reset", "", FALSE, "none")
    /\ app_prompt' = <<>>
    /\ UNCHANGED <<app_inputs, pipeVars, filterVars, loadVars, promptTextVars, fmtVars>>

\* the "refresh server status" button: the script reruns
App_Refresh(up) ==
    /\ check_pdf_server(up)
    /\ app_event' = Event("refresh", "", FALSE, "none")
    /\ app_prompt' = <<>>
    /\ UNCHANGED <<messages, app_inputs, pipeVars, filterVars, loadVars, promptTextVars, fmtVars>>

IdleApp ==
    /\ messages = <<>> /\ pdf_server_status = FALSE /\ app_inputs = 0
    /\ app_event = Event("none", "", FALSE, "none") /\ app_prompt = <<>>

-----------------------------------------------------------------------------
(* Model output as text, and its parsed value.  A response text is a       *)
(* sequence of chunks: whitespace, the fence ```, the tag json, a JSON      *)
(* document, or other characters.  A JSON value is a record of uniform      *)
(* shape; a key that may be missing is a record [has, v].                   *)

Missing == [has |-> FALSE, v |-> ""]
Val(x) == [has |-> TRUE, v |-> x]

\* d.get(key, default)
get(field, default) == IF field.has THEN field.v ELSE default

\* x or default, for an optional string
or_default(field, default) == IF field.has /\ field.v # "" THEN field.v ELSE default

\* confidence_score: a number; [Num(0) EXCEPT !.has = FALSE] when the key is
\* missing, [Num(0) EXCEPT !.t = "str"] when it is (wrongly typed) a string
Num(n) == [has |-> TRUE, t |-> "num", n |-> n]

PlanFields == {"recommended_sessions", "expected_downtime", "pre_procedure_care",
               "post_procedure_care", "expected_cost_range"}

\* procedure_plan: an object with some of its fields; EXCEPT !.has = FALSE
\* when the key is missing, EXCEPT !.t = "str" when it is a string
PlanObj(present) ==
    [has |-> TRUE, t |-> "obj", f |-> [k \in PlanFields |-> IF k \in present THEN Val(k) ELSE Missing]]

\* an element of detailed_analysis
Analysis(option, conf, explanation, principle, citation, plan) ==
    [t |-> "obj", option |-> option, confidence_score |-> conf,
     detailed_explanation |-> explanation, medical_principle |-> principle,
     citation |-> citation, procedure_plan |-> plan]

\* a list-valued key: missing, a list, or (wrongly typed, EXCEPT !.t = "num")
\* a number
NoList == [has |-> FALSE, t |-> "list", items |-> <<>>]
ListOf(items) == [has |-> TRUE, t |-> "list", items |-> items]

\* an element of skin_issues
Issue(problem, options, analyses) ==
    [t |-> "obj", identified_problem |-> problem, recommended_options |-> options,
     detailed_analysis |-> analyses]

\* analyzed_data: an object with its submitted_photos list (no formatter
\* reads its conversation_history); EXCEPT !.has = FALSE when the key is
\* missing, EXCEPT !.t = "str" when it is a string
AnalyzedData(photos) == [has |-> TRUE, t |-> "obj", submitted_photos |-> photos]

\* a parsed JSON value: an object (ConsultationResponse or anything else), or
\* a list, number, null or string.  Of a list or a string, holds is the set
\* of key names for which `key in value` is true (an element of the list, a
\* substring of the string), and of a string, content says what json.loads
\* makes of its text: "text" (no JSON), or the type of the value it holds
\* ("obj" for the text {}, "num", "null", "list", "str"), whose holds is that
\* of the string.
Data(stage, concern, summary, analyzed, issues, guide) ==
    [t |-> "obj", consultation_stage |-> stage, clarified_user_concern |-> concern,
     overall_summary |-> summary, analyzed_data |-> analyzed, skin_issues |-> issues,
     clinic_selection_guide |-> guide, raw_response |-> [has |-> FALSE, text |-> <<>>],
     holds |-> {}, content |-> ""]
EmptyObj ==
    Data(Missing, Missing, Missing, [AnalyzedData(NoList) EXCEPT !.has = FALSE], NoList, Missing)

\* a value that is no object
NonObject(t, holds, content) == [EmptyObj EXCEPT !.t = t, !.holds = holds, !.content = content]

\* chunks of a response text: Tok("ws") whitespace, Tok("fence") three
\* backticks, Tok("json") the tag, Tok("other") anything else; Doc(d) a
\* JSON document
Tok(c) == [c |-> c, doc |-> EmptyObj]
Doc(d) == [c |-> "doc", doc |-> d]

\* str.strip()
strip(s) ==
    LET RECURSIVE lstrip(_), rstrip(_)
        lstrip(x) == IF x # <<>> /\ Head(x).c = "ws" THEN lstrip(Tail(x)) ELSE x
        rstrip(x) == IF x # <<>> /\ x[Len(x)].c = "ws"
                     THEN rstrip(SubSeq(x, 1, Len(x) - 1)) ELSE x
    IN rstrip(lstrip(s))

\* cleaned_response of process_full_consultation: strip, drop a leading
\* ```json, drop a trailing ```, strip
clean_response(raw) ==
    LET s1 == strip(raw)
        startswith_fence_json == Len(s1) >= 2 /\ s1[1].c = "fence" /\ s1[2].c = "json"
        s2 == IF startswith_fence_json THEN SubSeq(s1, 3, Len(s1)) ELSE s1
        endswith_fence == s2 # <<>> /\ s2[Len(s2)].c = "fence"
        s3 == IF endswith_fence THEN SubSeq(s2, 1, Len(s2) - 1) ELSE s2
    IN strip(s3)

\* json.loads(text): one document, whitespace around it allowed; anything
\* else is a JSONDecodeError
json_loads(text) ==
    LET s == strip(text) IN
    IF Len(s) = 1 /\ s[1].c = "doc"
    THEN [ok |-> TRUE, value |-> s[1].doc]
    ELSE [ok |-> FALSE, value |-> EmptyObj]

-----------------------------------------------------------------------------
(* The formatters.  A rendered text is a sequence of lines; a line names    *)
(* the field it shows and carries the value shown ("" when the line is      *)
(* blank after its label), the slice limit applied to the value (limit,     *)
(* 0: none), and, for a line that embeds the model text, that text (raw).   *)
(* The fixed Korean texts are written romanised.                             *)

Line(label, value) == [label |-> label, value |-> value, limit |-> 0, raw |-> <<>>]

\* the outcome of a rendering: the text, or the exception that left it
Rendered(kind, lines) == [raised |-> NoErr, kind |-> kind, lines |-> lines]
Raises(e) == [raised |-> e, kind |-> "raised", lines |-> <<>>]

\* sequential composition: the first exception ends the rendering
Then(a, b) ==
    IF a.raised # NoErr THEN a
    ELSE IF b.raised # NoErr THEN b
    ELSE Rendered(b.kind, a.lines \o b.lines)

\* for x in d.get(key, [])
IterItems(list) == IF list.has THEN list.items ELSE <<>>

\* if key in data: response += ...
chat_optional(label, field) ==
    IF field.has THEN << Line(label, field.v) >> ELSE <<>>

\* ---- format_consultation_json_to_chat (simple_json_formatter.py) ----

\* conf_emoji / conf_text of lines 71-79
chat_tier(confidence) ==
    IF confidence >= 9 THEN "green" ELSE IF confidence >= 7 THEN "yellow" ELSE "orange"

\* lines 64-105: the elements of detailed_analysis; the plan block only when
\* the key is present, the citation only when present and non-empty
RECURSIVE chat_analyses(_)
chat_analyses(items) ==
    LET chat_plan(plan) ==
            IF ~plan.has THEN Rendered("chat", <<>>)
            ELSE IF plan.t # "obj" THEN Raises("AttributeError")
            ELSE Rendered("chat",
                   << Line("recommended_sessions", get(plan.f["recommended_sessions"], "sangdam hu gyeoljeong")),
                      Line("expected_downtime", get(plan.f["expected_downtime"], "gaeincha isseum")),
                      Line("pre_procedure_care", get(plan.f["pre_procedure_care"], "sangdam si annae")),
                      Line("post_procedure_care", get(plan.f["post_procedure_care"], "sangdam si annae")),
                      Line("expected_cost_range", get(plan.f["expected_cost_range"], "sangdam si annae")) >>)
        chat_citation(citation) ==
            IF citation.has /\ citation.v # ""
            THEN Rendered("chat", << [Line("citation", citation.v) EXCEPT !.limit = 100] >>)
            ELSE Rendered("chat", <<>>)
        chat_analysis(a) ==
            IF a.t # "obj" THEN Raises("AttributeError")
            ELSE IF a.confidence_score.t # "num" THEN Raises("TypeError")
            ELSE LET confidence == IF a.confidence_score.has THEN a.confidence_score.n ELSE 0 IN
                 Then(Rendered("chat",
                        << Line("tier", chat_tier(confidence)),
                           Line("option", get(a.option, "sisul")),
                           Line("confidence_score", ToString(confidence)),
                           Line("medical_principle", get(a.medical_principle, "")),
                           Line("detailed_explanation", get(a.detailed_explanation, "")) >>),
                      Then(chat_plan(a.procedure_plan), chat_citation(a.citation)))
    IN IF items = <<>> THEN Rendered("chat", <<>>)
       ELSE Then(chat_analysis(Head(items)), chat_analyses(Tail(items)))

\* lines 50-105: the elements of skin_issues
RECURSIVE chat_issues(_)
chat_issues(items) ==
    LET chat_issue(issue) ==
            IF issue.t # "obj" THEN Raises("AttributeError")
            ELSE IF issue.recommended_options.t # "list" \/ issue.detailed_analysis.t # "list"
            THEN Raises("TypeError")
            ELSE Then(Rendered("chat",
                        << Line("identified_problem", get(issue.identified_problem, "bunseok jung...")) >>
                        \o [i \in 1..Len(IterItems(issue.recommended_options)) |->
                               Line("recommended_option", IterItems(issue.recommended_options)[i])]),
                      chat_analyses(IterItems(issue.detailed_analysis)))
    IN IF items = <<>> THEN Rendered("chat", <<>>)
       ELSE Then(chat_issue(Head(items)), chat_issues(Tail(items)))

\* format_consultation_json_to_chat(json_data, pdf_filename, category) on a
\* parsed value.  A Python string (a JSON string literal once parsed) is
\* parsed again (lines 15-17): a text that is no JSON is shown in the wrapper
\* of lines 19-25, any other is replaced by the value it holds.  Then lines
\* 29-127: `in` on a number or on None raises; on a list or a string it is
\* the membership or substring test, and data[key] raises when it succeeds;
\* a list or a string that holds none of the keys gives greeting and closing.
format_consultation_json_to_chat(json_data, pdf_filename, category_arg) ==
    LET annotation ==
            << [Line("reference_pdf", pdf_filename) EXCEPT !.limit = 50],
               Line("category", or_default(category_arg, "jeonche")) >>
        loaded ==
            IF json_data.t # "str" THEN [ok |-> TRUE, value |-> json_data]
            ELSE IF json_data.content = "text" THEN [ok |-> FALSE, value |-> EmptyObj]
            ELSE [ok |-> TRUE,
                  value |-> NonObject(json_data.content,
                                      IF json_data.content \in {"list", "str"}
                                      THEN json_data.holds ELSE {}, "text")]
        data == IF loaded.value.t = "obj" THEN loaded.value
                ELSE NonObject(loaded.value.t, loaded.value.holds, loaded.value.content)
        chat_keys == {"clarified_user_concern", "overall_summary", "skin_issues",
                      "clinic_selection_guide"}
    IN IF ~loaded.ok
       THEN Rendered("chat_parse_wrapper",
                << Line("header", "full mode"), Line("body", "decoded string") >> \o annotation)
       ELSE IF data.t \in {"num", "null"} THEN Raises("TypeError")
       ELSE IF data.t \in {"list", "str"} /\ data.holds \cap chat_keys # {}
       THEN Raises("TypeError")
       ELSE IF data.skin_issues.has /\ data.skin_issues.t # "list" THEN Raises("TypeError")
       ELSE Then(Rendered("chat",
                   << Line("greeting", "full mode") >>
                   \o chat_optional("clarified_user_concern", data.clarified_user_concern)
                   \o chat_optional("overall_summary", data.overall_summary)),
            Then(chat_issues(IterItems(data.skin_issues)),
                 Rendered("chat",
                   chat_optional("clinic_selection_guide", data.clinic_selection_guide)
                   \o << Line("closing", "closing") >> \o annotation)))

\* ---- AdvancedResponseFormatter (advanced_response_formatter.py) ----

\* conf_emoji of lines 120-125
advanced_tier(confidence) ==
    IF confidence >= 8 THEN "green" ELSE IF confidence >= 6 THEN "yellow" ELSE "orange"

\* lines 111-142: the elements of detailed_analysis; a missing plan is {}
RECURSIVE advanced_analyses(_)
advanced_analyses(items) ==
    LET advanced_analysis(a) ==
            IF a.t # "obj" THEN Raises("AttributeError")
            ELSE IF a.confidence_score.t # "num" THEN Raises("TypeError")
            ELSE IF a.procedure_plan.t # "obj" THEN Raises("AttributeError")
            ELSE LET confidence == IF a.confidence_score.has THEN a.confidence_score.n ELSE 0
                     plan == a.procedure_plan.f
                 IN Rendered("advanced",
                      << Line("tier", advanced_tier(confidence)),
                         Line("option", get(a.option, "sisul")),
                         Line("confidence_score", ToString(confidence)),
                         Line("medical_principle", get(a.medical_principle, "")),
                         Line("detailed_explanation", get(a.detailed_explanation, "")),
                         Line("recommended_sessions", get(plan["recommended_sessions"], "sangdam hu gyeoljeong")),
                         Line("expected_downtime", get(plan["expected_downtime"], "gaeincha isseum")),
                         Line("pre_procedure_care", get(plan["pre_procedure_care"], "byeoldo annae")),
                         Line("post_procedure_care", get(plan["post_procedure_care"], "byeoldo annae")),
                         Line("expected_cost_range", get(plan["expected_cost_range"], "sangdam si annae")),
                         Line("citation", get(a.citation, "")) >>)
    IN IF items = <<>> THEN Rendered("advanced", <<>>)
       ELSE Then(advanced_analysis(Head(items)), advanced_analyses(Tail(items)))

\* lines 97-147: the sections of the elements of skin_issues
RECURSIVE advanced_issues(_)
advanced_issues(items) ==
    LET advanced_issue(issue) ==
            IF issue.t # "obj" THEN Raises("AttributeError")
            ELSE IF issue.detailed_analysis.t # "list" THEN Raises("TypeError")
            ELSE Then(Rendered("advanced",
                        << Line("identified_problem", get(issue.identified_problem, "pibu munje")) >>),
                      advanced_analyses(IterItems(issue.detailed_analysis)))
    IN IF items = <<>> THEN Rendered("advanced", <<>>)
       ELSE Then(advanced_issue(Head(items)), advanced_issues(Tail(items)))

\* a rendering whose exception is handed on to the caller
uncaught(result, handler_text) == result

\* try: ... except Exception as e: return <text>
catch(result, handler_text) ==
    IF result.raised # NoErr THEN handler_text ELSE result

\* format_consultation_response(consultation_json) on the response text:
\* json.loads of the text as it is; header, analysis (one bullet for each
\* submitted photo, or the no-photos line), treatment sections, clinic guide,
\* closing (data.get on a value that is no object raises, so does
\* analyzed_data.get on one that is no object, and the loop over a
\* submitted_photos that is a number other than 0); and the catch-all text
advanced_format_consultation_response(raw) ==
    LET parsed == json_loads(raw)
        data == parsed.value
        submitted_photos == data.analyzed_data.submitted_photos
        photo_lines ==
            IF data.analyzed_data.t # "obj" THEN Raises("AttributeError")
            ELSE IF submitted_photos.has /\ submitted_photos.t # "list" THEN Raises("TypeError")
            ELSE IF IterItems(submitted_photos) # <<>>
            THEN Rendered("advanced",
                   [i \in 1..Len(submitted_photos.items) |->
                       Line("submitted_photo", submitted_photos.items[i])])
            ELSE Rendered("advanced", << Line("submitted_photos", "no photos submitted") >>)
        advanced_render ==
            IF data.t # "obj" THEN Raises("AttributeError")
            ELSE Then(Rendered("advanced",
                        << Line("consultation_stage", get(data.consultation_stage, "sangdam")),
                           Line("clarified_user_concern", get(data.clarified_user_concern, "pibu sangdam")),
                           Line("overall_summary",
                                get(data.overall_summary, "jonghapjeogin bunseogeul jinhaenghaetseumnida.")) >>),
                 Then(photo_lines,
                 Then(IF data.skin_issues.t # "list" THEN Raises("TypeError")
                      ELSE advanced_issues(IterItems(data.skin_issues)),
                      Rendered("advanced",
                        << Line("clinic_selection_guide",
                                get(data.clinic_selection_guide,
                                    "jeonmunjeogin byeongwoneul seontaekhasigil gwonhamnida.")),
                           Line("checkpoints", "checkpoints"),
                           Line("closing", "closing") >>))))
        result == IF parsed.ok THEN advanced_render ELSE Raises("JSONDecodeError")
    IN catch(result, Rendered("advanced_error_text", << Line("error", result.raised) >>))

\* ---- process_full_consultation, steps 6 to 8, and its except branch ----

\* lines 232-245: json.loads, or the {"raw_response": ..} dict on JSONDecodeError
step7_parse(cleaned) ==
    LET parsed == json_loads(cleaned)
    IN IF parsed.ok THEN parsed
       ELSE [ok |-> FALSE,
             value |-> [EmptyObj EXCEPT !.raw_response = [has |-> TRUE, text |-> cleaned]]]

\* lines 206-282: the response text is cleaned, an empty one raises into the
\* outer except branch (the canned text of lines 284-304), the rest is parsed
\* and formatted; an exception of the formatter gives the text of lines 265-272
full_format(raw, filename, category_arg) ==
    LET cleaned == clean_response(raw) IN
    IF cleaned = <<>> THEN Rendered("canned_fallback", << Line("canned", "jyuberuk") >>)
    ELSE LET consultation_data == step7_parse(cleaned).value
             result == format_consultation_json_to_chat(consultation_data, filename, category_arg)
             format_error_wrapper ==
                 Rendered("format_error_wrapper",
                     << Line("header", "full mode - original response"),
                        [Line("body", "raw") EXCEPT !.raw = cleaned],
                        Line("reference_pdf", filename),
                        Line("category", get(category_arg, "jeonche")),
                        Line("format_error", result.raised) >>)
         IN catch(result, format_error_wrapper)

\* ---- _format_consultation_directly (advanced_consultation_service.py) ----

\* confidence_emoji of line 365
direct_tier(confidence) ==
    IF confidence >= 8 THEN "green" ELSE IF confidence >= 6 THEN "yellow" ELSE "orange"

\* lines 360-381: the elements of detailed_analysis, the plan block (three of
\* its fields) only when the key is present
RECURSIVE direct_analyses(_)
direct_analyses(items) ==
    LET direct_plan(plan) ==
            IF ~plan.has THEN Rendered("direct", <<>>)
            ELSE IF plan.t # "obj" THEN Raises("AttributeError")
            ELSE Rendered("direct",
                   << Line("recommended_sessions", get(plan.f["recommended_sessions"], "sangdam hu gyeoljeong")),
                      Line("expected_downtime", get(plan.f["expected_downtime"], "gaeincha isseum")),
                      Line("expected_cost_range", get(plan.f["expected_cost_range"], "sangdam si annae")) >>)
        direct_analysis(a) ==
            IF a.t # "obj" THEN Raises("AttributeError")
            ELSE IF a.confidence_score.t # "num" THEN Raises("TypeError")
            ELSE LET confidence == IF a.confidence_score.has THEN a.confidence_score.n ELSE 0 IN
                 Then(Rendered("direct",
                        << Line("tier", direct_tier(confidence)),
                           Line("option", get(a.option, "sisul")),
                           Line("confidence_score", ToString(confidence)),
                           Line("detailed_explanation", get(a.detailed_explanation, "")) >>),
                      direct_plan(a.procedure_plan))
    IN IF items = <<>> THEN Rendered("direct", <<>>)
       ELSE Then(direct_analysis(Head(items)), direct_analyses(Tail(items)))

\* lines 348-381: the elements of skin_issues
RECURSIVE direct_issues(_)
direct_issues(items) ==
    LET direct_issue(issue) ==
            IF issue.t # "obj" THEN Raises("AttributeError")
            ELSE IF issue.recommended_options.t # "list" \/ issue.detailed_analysis.t # "list"
            THEN Raises("TypeError")
            ELSE Then(Rendered("direct",
                        << Line("identified_problem", get(issue.identified_problem, "bunseok jung")) >>
                        \o [i \in 1..Len(IterItems(issue.recommended_options)) |->
                               Line("recommended_option", IterItems(issue.recommended_options)[i])]),
                      direct_analyses(IterItems(issue.detailed_analysis)))
    IN IF items = <<>> THEN Rendered("direct", <<>>)
       ELSE Then(direct_issue(Head(items)), direct_issues(Tail(items)))

\* _format_consultation_directly(consultation_data, pdf_filename, category,
\* raw_response): the raw_response wrapper (lines 312-321), or the structured
\* text (lines 326-397), or the text of its own except branch (lines
\* 399-410).  Before the try: `in` on a number or on None raises (line 312);
\* a list or a string that holds the key raw_response is indexed by it and
\* raises (line 316), any other list or string has no keys() (line 325)
format_consultation_directly(data, pdf_filename, category_arg, raw_response) ==
    LET annotation ==
            << [Line("reference_pdf", pdf_filename) EXCEPT !.limit = 50],
               Line("category", or_default(category_arg, "jeonche")) >>
        direct_render ==
            IF data.skin_issues.has /\ data.skin_issues.t # "list" THEN Raises("TypeError")
            ELSE Then(Rendered("direct",
                        << Line("greeting", "full mode") >>
                        \o chat_optional("clarified_user_concern", data.clarified_user_concern)
                        \o chat_optional("overall_summary", data.overall_summary)),
                 Then(direct_issues(IterItems(data.skin_issues)),
                      Rendered("direct",
                        chat_optional("clinic_selection_guide", data.clinic_selection_guide)
                        \o annotation)))
    IN IF data.t \in {"num", "null"} THEN Raises("TypeError")
       ELSE IF data.t \in {"list", "str"}
       THEN (IF "raw_response" \in data.holds THEN Raises("TypeError")
             ELSE Raises("AttributeError"))
       ELSE IF data.raw_response.has
       THEN Rendered("direct_raw_wrapper",
              << Line("header", "full mode"),
                 [Line("body", "raw") EXCEPT !.raw = data.raw_response.text] >> \o annotation)
       ELSE catch(direct_render,
              Rendered("direct_issue_wrapper",
                << Line("header", "full mode"),
                   [Line("body", "raw") EXCEPT !.raw = raw_response] >>
                \o annotation
                \o << Line("formatting_issue", direct_render.raised) >>))

\* ---- Inputs of the formatters ----

MaxScore == 10          \* highest confidence score the model returns

\* the JSON documents the model may return: objects with every combination
\* of missing keys, wrongly typed values, and values that are no object
Docs ==
    LET MaybeText(v) == {Missing, Val(v)}
        ListNum == [ListOf(<<>>) EXCEPT !.t = "num"]
        NoPlan == [PlanObj({}) EXCEPT !.has = FALSE]
        Confs == {[Num(0) EXCEPT !.has = FALSE], [Num(0) EXCEPT !.t = "str"]}
                 \cup {Num(n) : n \in 5..MaxScore}
        Plans == {NoPlan, PlanObj({}), PlanObj({"recommended_sessions"}), PlanObj(PlanFields),
                  [PlanObj({}) EXCEPT !.t = "str"]}
        FullAnalysis ==
            Analysis(Val("filler"), Num(9), Val("explanation"), Val("principle"),
                     Val("citation"), PlanObj(PlanFields))
        Analyses ==
            { Analysis(o, c, e, p, ci, pl) :
                o \in MaybeText("filler"), c \in Confs, e \in MaybeText("explanation"),
                p \in MaybeText("principle"), ci \in MaybeText("citation"), pl \in Plans }
            \cup { [Analysis(Missing, [Num(0) EXCEPT !.has = FALSE], Missing, Missing, Missing,
                             NoPlan) EXCEPT !.t = "str"],
                   [FullAnalysis EXCEPT !.citation = Val("")] }
        AnalysisLists == {NoList, ListOf(<<>>), ListNum} \cup {ListOf(<<a>>) : a \in Analyses}
        Issues ==
            { Issue(p, NoList, al) : p \in MaybeText("wrinkles"), al \in AnalysisLists }
            \cup { [Issue(Missing, NoList, NoList) EXCEPT !.t = "str"],
                   Issue(Val("wrinkles"), ListOf(<<"filler", "botox">>), NoList),
                   Issue(Val("wrinkles"), ListNum, NoList) }
        IssueLists == {NoList, ListOf(<<>>), ListNum} \cup {ListOf(<<i>>) : i \in Issues}
        SomeIssueLists ==
            { NoList, ListOf(<<>>),
              ListOf(<< Issue(Val("wrinkles"), ListOf(<<"filler">>), ListOf(<<FullAnalysis>>)) >>),
              ListOf(<< Issue(Val("wrinkles"), NoList, ListOf(<<FullAnalysis>>)),
                        Issue(Val("pores"), NoList, ListOf(<<FullAnalysis, FullAnalysis>>)) >>) }
        NoAnalyzedData == [AnalyzedData(NoList) EXCEPT !.has = FALSE]
        AnalyzedDatas ==
            { AnalyzedData(ph) :
                ph \in {NoList, ListOf(<<>>), ListOf(<<"photo of the cheek">>),
                        ListOf(<<"photo of the cheek", "photo of the forehead">>), ListNum} }
            \cup { [AnalyzedData(NoList) EXCEPT !.t = "str"] }
        NonObjects ==
            { NonObject("num", {}, ""), NonObject("null", {}, "") }
            \cup { NonObject("list", h, "") : h \in {{}, {"skin_issues"}, {"raw_response"}} }
            \cup { NonObject("str", h, "text") : h \in {{}, {"raw_response"}} }
            \cup { NonObject("str", {}, c) : c \in {"obj", "num", "null", "list", "str"} }
            \cup { NonObject("str", {"skin_issues"}, c) : c \in {"list", "str"} }
    IN { Data(st, co, su, NoAnalyzedData, il, gu) :
           st \in MaybeText("stage"), co \in MaybeText("concern"), su \in MaybeText("summary"),
           il \in SomeIssueLists, gu \in MaybeText("guide") }
       \cup { Data(x, x, x, NoAnalyzedData, il, x) : x \in MaybeText("present"), il \in IssueLists }
       \cup { Data(x, x, x, ad, il, x) :
                x \in MaybeText("present"), ad \in AnalyzedDatas, il \in {NoList, ListNum} }
       \cup NonObjects

\* a document as the model writes it: bare, or inside a fence with the json
\* tag; with or without whitespace around
BareForms(d) == { << Doc(d) >>, << Tok("ws"), Doc(d), Tok("ws") >> }

TaggedFenceForms(d) ==
    { << Tok("fence"), Tok("json"), Tok("ws"), Doc(d), Tok("ws"), Tok("fence") >>,
      << Tok("ws"), Tok("fence"), Tok("json"), Doc(d), Tok("fence"), Tok("ws") >> }

\* response.text: a document bare, fenced with the tag or fenced without it,
\* or a text that holds no document
ResponseTexts ==
    { <<>>, << Tok("ws") >>, << Tok("other") >>, << Tok("other"), Doc(EmptyObj) >>,
      << Tok("fence"), Tok("json"), Tok("ws"), Tok("other"), Tok("ws"), Tok("fence") >>,
      << Tok("fence"), Tok("json"), Tok("fence") >> }
    \cup UNION { BareForms(d) \cup TaggedFenceForms(d)
                 \cup { << Tok("fence"), Tok("ws"), Doc(d), Tok("ws"), Tok("fence") >> } : d \in Docs }

IdleFormat ==
    /\ fmt_raw = <<>> /\ fmt_entry = "none" /\ fmt_filename = "" /\ fmt_category = Missing
    /\ fmt_parsed = [ok |-> FALSE, value |-> EmptyObj] /\ fmt_out = Rendered("none", <<>>)

\* step 6 of process_consultation: the advanced formatter on response.text
Fmt_Advanced ==
    /\ fmt_entry = "none"
    /\ fmt_entry' = "format_consultation_response"
    /\ fmt_parsed' = json_loads(fmt_raw)
    /\ fmt_out' = advanced_format_consultation_response(fmt_raw)
    /\ UNCHANGED <<fmt_raw, fmt_filename, fmt_category, pipeVars, filterVars, loadVars,
                   promptTextVars, appVars>>

\* steps 6 to 8 of process_full_consultation on response.text
Fmt_Full(fn, cat) ==
    /\ fmt_entry = "none"
    /\ fmt_entry' = "process_full_consultation"
    /\ fmt_filename' = fn
    /\ fmt_category' = cat
    /\ fmt_parsed' = IF clean_response(fmt_raw) = <<>> THEN [ok |-> FALSE, value |-> EmptyObj]
                     ELSE step7_parse(clean_response(fmt_raw))
    /\ fmt_out' = full_format(fmt_raw, fn, cat)
    /\ UNCHANGED <<fmt_raw, pipeVars, filterVars, loadVars, promptTextVars, appVars>>

\* _format_consultation_directly on the consultation_data of step 8 (the
\* method is defined next to process_full_consultation, which does not call it)
Fmt_Direct(fn, cat) ==
    /\ fmt_entry = "none"
    /\ clean_response(fmt_raw) # <<>>
    /\ fmt_entry' = "_format_consultation_directly"
    /\ fmt_filename' = fn
    /\ fmt_category' = cat
    /\ fmt_parsed' = step7_parse(clean_response(fmt_raw))
    /\ fmt_out' = format_consultation_directly(fmt_parsed'.value, fn, cat,
                                               clean_response(fmt_raw))
    /\ UNCHANGED <<fmt_raw, pipeVars, filterVars, loadVars, promptTextVars, appVars>>

-----------------------------------------------------------------------------
(* The reference corpus loader and the PDF server (src/pdf_server.py).  The *)
(* loader exists in three copies of one loop: upload_pdfs_from_directory,   *)
(* ConsultationService._upload_all_pdfs and upload_all_pdfs_once.  A file   *)
(* is [dir, stem, ext]; its filename, the key of the mapping, is            *)
(* [stem, ext].  Every upload is a call to the provider that the programs   *)
(* share, so a run of the loader is one step per upload, and the runs of    *)
(* the server, the service's callers and the command-line program           *)
(* interleave.                                                              *)

MaxFiles == 2       \* most files in the textbook directory
MaxLoads == 3       \* runs of the loader, finished or under way, after which no
                    \* further run is started

File(dir, stem, ext) == [dir |-> dir, stem |-> stem, ext |-> ext]

\* the files a textbook directory may hold, in os.walk order: those of the
\* top directory, then those of its subdirectory
WalkOrder ==
    << File("textbooks", "fillers", "pdf"), File("textbooks", "lasers", "PDF"),
       File("textbooks", "notes", "txt"), File("textbooks/old", "fillers", "pdf") >>

\* the directory is missing, or holds at most MaxFiles of the files
Directories ==
    LET RECURSIVE pick(_, _)
        pick(S, i) == IF i > Len(WalkOrder) THEN <<>>
                      ELSE (IF i \in S THEN <<WalkOrder[i]>> ELSE <<>>) \o pick(S, i + 1)
    IN {[exists |-> FALSE, walk |-> <<>>]}
       \cup {[exists |-> TRUE, walk |-> pick(S, 1)] :
               S \in {T \in SUBSET (1..Len(WalkOrder)) : Cardinality(T) <= MaxFiles}}

\* the files of the directory the loop tries to upload: those with
\* file.lower().endswith(".pdf")
PdfFiles(dir) ==
    LET lower(x) == IF x = "PDF" THEN "pdf" ELSE x
        is_pdf(file) == lower(file.ext) = "pdf"
    IN {dir.walk[i] : i \in {j \in 1..Len(dir.walk) : is_pdf(dir.walk[j])}}

\* client.files.upload(file=filepath): the handle the provider returns.  A
\* repeatable provider returns the same handle for the same file, any other
\* a fresh one (n uploads were made before)
files_upload(filepath, det, n) == [file |-> filepath, serial |-> IF det THEN 0 ELSE n]

\* a dict: its keys in insertion order (list(d.keys()), iteration) and the
\* value stored at each key; {} is the empty one
EmptyDict == [keys |-> <<>>, at |-> [x \in {} |-> x]]

\* d[k] = v: a key stored for the first time is appended to the keys, a key
\* stored again keeps its place and gets the new value
dict_set(d, k, v) ==
    [keys |-> IF k \in DOMAIN d.at THEN d.keys ELSE Append(d.keys, k),
     at |-> [x \in DOMAIN d.at \cup {k} |-> IF x = k THEN v ELSE d.at[x]]]

\* the locals of a loader as it is entered: the walk has yielded no file
\* (k = 0), nothing is uploaded, uploaded_files = {}
LoaderEntered == [k |-> 0, ok |-> {}, uploaded_files |-> EmptyDict]

\* the walk after its k-th file: the place of the next file that passes the
\* .pdf test, 0 when no such file is left and the loader returns
next_pdf(k) ==
    LET rest == {j \in (k + 1)..Len(directory.walk) :
                    directory.walk[j] \in PdfFiles(directory)}
    IN IF rest = {} THEN 0 ELSE CHOOSE j \in rest : \A i \in rest : j <= i

\* the runs of the loader started so far: the finished ones and those under
\* way in the server, the service and the command-line program
loads_started ==
    Len(runs) + Cardinality(DOMAIN svc_pdf_handles.loading)
    + (IF srv_loading.op = "none" THEN 0 ELSE 1)
    + (IF agent_main.state = "uploading" THEN 1 ELSE 0)

\* the number of uploads the provider has accepted so far: those of the
\* finished runs and those of the runs under way
uploads_so_far ==
    LET RECURSIVE total(_)
        total(rs) == IF rs = <<>> THEN 0 ELSE Cardinality(Head(rs).ok) + total(Tail(rs))
        loading == svc_pdf_handles.loading
        RECURSIVE under_way(_)
        under_way(S) == IF S = {} THEN 0
                        ELSE LET c == CHOOSE x \in S : TRUE
                             IN Cardinality(loading[c].ok) + under_way(S \ {c})
    IN total(runs) + under_way(DOMAIN loading)
       + Cardinality(srv_loading.run.ok) + Cardinality(agent_main.loading.ok)

\* the outcome of one upload: a repeatable provider fails on the same files
\* every time; without a client (no API key) every upload raises
MayRaise(filepath, raises) ==
    /\ provider.det => (raises <=> filepath \in provider.fail)
    /\ ~provider.api_key => raises

\* a loader that remembers that a run has finished and uploads nothing
\* after it
upload_skipping_uploaded(run, raises) ==
    LET k == next_pdf(run.k)
        filepath == directory.walk[k]
        file == [stem |-> filepath.stem, ext |-> filepath.ext]
        uploaded_file == files_upload(filepath, provider.det, uploads_so_far)
    IN IF raises \/ runs # <<>> THEN [run EXCEPT !.k = k]
       ELSE [k |-> k, ok |-> run.ok \cup {filepath},
             uploaded_files |->
                 dict_set(run.uploaded_files, file,
                          [handle |-> uploaded_file, file_path |-> filepath])]

\* upload_pdfs_from_directory(directory_path), one pass of its loop body:
\* the walk (which yields nothing for a missing directory) goes on to the
\* next PDF file, the file is uploaded and its entry stored under the bare
\* filename; a file whose upload raises is printed and skipped
upload_pdfs_from_directory(run, raises) ==
    LET k == next_pdf(run.k)
        filepath == directory.walk[k]
        file == [stem |-> filepath.stem, ext |-> filepath.ext]
        uploaded_file == files_upload(filepath, provider.det, uploads_so_far)
    IN IF raises THEN [run EXCEPT !.k = k]
       ELSE [k |-> k, ok |-> run.ok \cup {filepath},
             uploaded_files |->
                 dict_set(run.uploaded_files, file,
                          [handle |-> uploaded_file, file_path |-> filepath])]

\* get_cached_pdf_handles(): filename -> handle, in the order of the cache
get_cached_pdf_handles(cache) ==
    [keys |-> cache.keys, at |-> [x \in DOMAIN cache.at |-> cache.at[x].handle]]

\* one finished run of the loader: who ran it, the files whose upload
\* succeeded, and the filename -> handle mapping it returned
Run(loader, ok, mapping) == [loader |-> loader, ok |-> ok, mapping |-> mapping]

\* list(d.keys()): the keys in insertion order
list_keys(d) == d.keys

\* a reply of the PDF server; handle_info holds the handle when one is sent
Reply(op, code, status, cached_pdfs, pdf_list, handle_info) ==
    [op |-> op, code |-> code, status |-> status, cached_pdfs |-> cached_pdfs,
     pdf_list |-> pdf_list, handle_info |-> handle_info]

\* startup_event() up to its loader: without an API key initialize_client
\* raises and the handler only prints; a missing directory returns early;
\* in both cases the start-up is over.  Otherwise upload_pdfs_from_directory
\* is entered
Srv_Startup ==
    /\ ~srv_started
    /\ srv_loading.op = "none"
    /\ IF ~provider.api_key \/ ~directory.exists
       THEN /\ srv_started' = TRUE
            /\ UNCHANGED srv_loading
       ELSE /\ loads_started < MaxLoads
            /\ srv_loading' = [op |-> "startup_event", run |-> LoaderEntered]
            /\ UNCHANGED srv_started
    /\ UNCHANGED <<directory, provider, runs, pdf_cache, srv_reply, svc_pdf_handles,
                   agent_main, pipeVars, filterVars, promptTextVars, appVars, fmtVars>>

\* POST /reload-pdfs up to its loader: upload_pdfs_from_directory is
\* entered.  The handler does not yield while its loader runs, so the server
\* answers no other request until the reply is sent
Srv_Reload ==
    /\ srv_started
    /\ srv_loading.op = "none"
    /\ loads_started < MaxLoads
    /\ srv_loading' = [op |-> "reload_pdfs", run |-> LoaderEntered]
    /\ UNCHANGED <<directory, provider, runs, srv_started, pdf_cache, srv_reply,
                   svc_pdf_handles, agent_main,
                   pipeVars, filterVars, promptTextVars, appVars, fmtVars>>

\* the server's loader uploads its next PDF file: the handler waits for the
\* provider, which serves the uploads of the other programs meanwhile
Srv_Upload(raises) ==
    /\ srv_loading.op # "none"
    /\ next_pdf(srv_loading.run.k) # 0
    /\ MayRaise(directory.walk[next_pdf(srv_loading.run.k)], raises)
    /\ srv_loading' = [srv_loading EXCEPT
                          !.run = upload_pdfs_from_directory(srv_loading.run, raises)]
    /\ UNCHANGED <<directory, provider, runs, srv_started, pdf_cache, srv_reply,
                   svc_pdf_handles, agent_main,
                   pipeVars, filterVars, promptTextVars, appVars, fmtVars>>

\* the server's loader returns and pdf_cache = upload_pdfs_from_directory(...)
\* is assigned: the start-up is over, or the reload replies (the loader
\* raises nothing, so the 500 branch is not taken)
Srv_CacheAssign ==
    /\ srv_loading.op # "none"
    /\ next_pdf(srv_loading.run.k) = 0
    /\ pdf_cache' = srv_loading.run.uploaded_files
    /\ runs' = Append(runs, Run(srv_loading.op, srv_loading.run.ok,
                                get_cached_pdf_handles(pdf_cache')))
    /\ srv_loading' = [op |-> "none", run |-> LoaderEntered]
    /\ IF srv_loading.op = "startup_event"
       THEN /\ srv_started' = TRUE
            /\ UNCHANGED srv_reply
       ELSE /\ srv_reply' = Reply("reload-pdfs", 200, "", Cardinality(DOMAIN pdf_cache'.at),
                                  list_keys(pdf_cache'), {})
            /\ UNCHANGED srv_started
    /\ UNCHANGED <<directory, provider, svc_pdf_handles, agent_main,
                   pipeVars, filterVars, promptTextVars, appVars, fmtVars>>

\* GET /
Srv_Root ==
    /\ srv_started
    /\ srv_loading.op = "none"
    /\ srv_reply' = Reply("root", 200, "running", Cardinality(DOMAIN pdf_cache.at),
                          list_keys(pdf_cache), {})
    /\ UNCHANGED <<directory, provider, runs, srv_started, srv_loading, pdf_cache,
                   svc_pdf_handles, agent_main,
                   pipeVars, filterVars, promptTextVars, appVars, fmtVars>>

\* GET /pdf-cache: 404 for an empty cache, else the metadata of every entry
Srv_GetPdfCache ==
    /\ srv_started
    /\ srv_loading.op = "none"
    /\ srv_reply' = IF DOMAIN pdf_cache.at = {}
                    THEN Reply("pdf-cache", 404, "", 0, <<>>, {})
                    ELSE Reply("pdf-cache", 200, "", Cardinality(DOMAIN pdf_cache.at),
                               list_keys(pdf_cache), {})
    /\ UNCHANGED <<directory, provider, runs, srv_started, srv_loading, pdf_cache,
                   svc_pdf_handles, agent_main,
                   pipeVars, filterVars, promptTextVars, appVars, fmtVars>>

\* GET /pdf-handle/{filename}: 404 for an unknown filename, else its handle
Srv_GetPdfHandle(filename) ==
    /\ srv_started
    /\ srv_loading.op = "none"
    /\ srv_reply' = IF filename \notin DOMAIN pdf_cache.at
                    THEN Reply("pdf-handle", 404, "", 0, <<>>, {})
                    ELSE Reply("pdf-handle", 200, "", 1, <<filename>>,
                               {pdf_cache.at[filename].handle})
    /\ UNCHANGED <<directory, provider, runs, srv_started, srv_loading, pdf_cache,
                   svc_pdf_handles, agent_main,
                   pipeVars, filterVars, promptTextVars, appVars, fmtVars>>

\* ConsultationService.pdf_handles, read by every consultation query, up to
\* its test: a caller that finds _pdf_handles set goes on to return the
\* stored mapping; a caller that finds None enters _upload_all_pdfs.  No
\* lock is held, so a second caller can pass the test before the first has
\* stored (the callers are named in the order of their tests; the call of
\* process_consultation that is followed step by step is the first)
Svc_PdfHandles(caller) ==
    /\ provider.api_key
    /\ caller \notin DOMAIN svc_pdf_handles.loading
    /\ (prog = "consultation" /\ caller = "first") => pc = "pdf_handles"
    /\ IF svc_pdf_handles.loaded
       THEN UNCHANGED svc_pdf_handles
       ELSE /\ loads_started < MaxLoads
            /\ caller = "second" => "first" \in DOMAIN svc_pdf_handles.loading
            /\ svc_pdf_handles' =
                 [svc_pdf_handles EXCEPT !.loading =
                     [c \in DOMAIN svc_pdf_handles.loading \cup {caller} |->
                        IF c = caller THEN LoaderEntered
                        ELSE svc_pdf_handles.loading[c]]]
    /\ UNCHANGED <<directory, provider, runs, srv_started, srv_loading, pdf_cache,
                   srv_reply, agent_main,
                   pipeVars, filterVars, promptTextVars, appVars, fmtVars>>

\* ConsultationService._upload_all_pdfs, one pass of its loop body: the walk
\* goes on to the next PDF file and uploads it; the caller waits for the
\* provider, which answers with a handle or raises; the handle is stored
\* under the bare filename, a file whose upload raises is printed and
\* skipped
Svc_Upload(caller, raises) ==
    /\ caller \in DOMAIN svc_pdf_handles.loading
    /\ LET run == svc_pdf_handles.loading[caller]
           k == next_pdf(run.k)
           filepath == directory.walk[k]
           file == [stem |-> filepath.stem, ext |-> filepath.ext]
           uploaded_file == files_upload(filepath, provider.det, uploads_so_far)
       IN /\ k # 0
          /\ MayRaise(filepath, raises)
          /\ svc_pdf_handles' =
               [svc_pdf_handles EXCEPT !.loading[caller] =
                   IF raises THEN [run EXCEPT !.k = k]
                   ELSE [k |-> k, ok |-> run.ok \cup {filepath},
                         uploaded_files |-> dict_set(run.uploaded_files, file, uploaded_file)]]
    /\ UNCHANGED <<directory, provider, runs, srv_started, srv_loading, pdf_cache,
                   srv_reply, agent_main,
                   pipeVars, filterVars, promptTextVars, appVars, fmtVars>>

\* the end of the getter for a caller whose walk is over: _upload_all_pdfs
\* returns uploaded_files and the getter assigns it to _pdf_handles, over
\* whatever another caller stored meanwhile
Svc_PdfHandles_Store(caller) ==
    /\ caller \in DOMAIN svc_pdf_handles.loading
    /\ LET run == svc_pdf_handles.loading[caller]
       IN /\ next_pdf(run.k) = 0
          /\ svc_pdf_handles' =
               [loaded |-> TRUE, map |-> run.uploaded_files,
                loading |-> [c \in DOMAIN svc_pdf_handles.loading \ {caller} |->
                               svc_pdf_handles.loading[c]]]
          /\ runs' = Append(runs, Run("_upload_all_pdfs", run.ok, run.uploaded_files))
    /\ UNCHANGED <<directory, provider, srv_started, srv_loading, pdf_cache, srv_reply,
                   agent_main, pipeVars, filterVars, promptTextVars, appVars, fmtVars>>

\* the start of the command-line program: the client is created and
\* upload_all_pdfs_once is entered
Agent_Main ==
    /\ provider.api_key
    /\ agent_main.state = "not_started"
    /\ loads_started < MaxLoads
    /\ agent_main' = [agent_main EXCEPT !.state = "uploading"]
    /\ UNCHANGED <<directory, provider, runs, srv_started, srv_loading, pdf_cache,
                   srv_reply, svc_pdf_handles,
                   pipeVars, filterVars, promptTextVars, appVars, fmtVars>>

\* upload_all_pdfs_once(directory_path, api_client), one pass of its loop
\* body: the next PDF file is uploaded and its handle stored under the bare
\* filename; a file whose upload raises is printed and skipped
Agent_Upload(raises) ==
    /\ agent_main.state = "uploading"
    /\ LET run == agent_main.loading
           k == next_pdf(run.k)
           filepath == directory.walk[k]
           file == [stem |-> filepath.stem, ext |-> filepath.ext]
           uploaded_file == files_upload(filepath, provider.det, uploads_so_far)
       IN /\ k # 0
          /\ MayRaise(filepath, raises)
          /\ agent_main' =
               [agent_main EXCEPT !.loading =
                   IF raises THEN [run EXCEPT !.k = k]
                   ELSE [k |-> k, ok |-> run.ok \cup {filepath},
                         uploaded_files |-> dict_set(run.uploaded_files, file, uploaded_file)]]
    /\ UNCHANGED <<directory, provider, runs, srv_started, srv_loading, pdf_cache,
                   srv_reply, svc_pdf_handles,
                   pipeVars, filterVars, promptTextVars, appVars, fmtVars>>

\* upload_all_pdfs_once returns and pdf_handles_dict is assigned: exit()
\* when the mapping is empty, else the chat loop
Agent_Uploaded ==
    /\ agent_main.state = "uploading"
    /\ next_pdf(agent_main.loading.k) = 0
    /\ LET pdf_handles_dict == agent_main.loading.uploaded_files
       IN /\ agent_main' = [state |-> IF DOMAIN pdf_handles_dict.at = {} THEN "exited"
                                      ELSE "chat_loop",
                            loading |-> LoaderEntered,
                            pdf_handles_dict |-> pdf_handles_dict]
          /\ runs' = Append(runs, Run("upload_all_pdfs_once", agent_main.loading.ok,
                                      pdf_handles_dict))
    /\ UNCHANGED <<directory, provider, srv_started, srv_loading, pdf_cache, srv_reply,
                   svc_pdf_handles, pipeVars, filterVars, promptTextVars, appVars, fmtVars>>

\* nothing constructed yet: pdf_cache = {}, _pdf_handles = None
NotLoaded ==
    /\ runs = <<>>
    /\ srv_started = FALSE
    /\ srv_loading = [op |-> "none", run |-> LoaderEntered]
    /\ pdf_cache = EmptyDict
    /\ srv_reply = Reply("none", 0, "", 0, <<>>, {})
    /\ svc_pdf_handles = [loaded |-> FALSE, map |-> EmptyDict, loading |-> EmptyDict.at]
    /\ agent_main = [state |-> "not_started", loading |-> LoaderEntered,
                     pdf_handles_dict |-> EmptyDict]

IdleLoader ==
    /\ directory = [exists |-> FALSE, walk |-> <<>>]
    /\ provider = [api_key |-> FALSE, det |-> FALSE, fail |-> {}]
    /\ NotLoaded

\* the providers: no API key; fresh handles and any upload may fail; or
\* repeatable, with a fixed set of files whose upload fails
Providers(dir) ==
    {[api_key |-> FALSE, det |-> FALSE, fail |-> {}],
     [api_key |-> TRUE, det |-> FALSE, fail |-> {}]}
    \cup {[api_key |-> TRUE, det |-> TRUE, fail |-> F] : F \in SUBSET PdfFiles(dir)}

-----------------------------------------------------------------------------
(* Specifications *)

IdleExt == IdlePrompt /\ IdleApp /\ IdleFormat /\ IdleLoader

IdlePipeline ==
    /\ pc = "idle"
    /\ queries = 0
    /\ system_prompt_loaded \in (IF prog = "agent" THEN BOOLEAN ELSE {FALSE})
    /\ user_query = ""
    /\ simple_mode = FALSE
    /\ use_advanced_formatter = TRUE
    /\ selected_filename = NoFilename
    /\ selected_pdf_handle = NoHandle
    /\ category_result = NoCategoryResult
    /\ category = NoneStr
    /\ hospital_info = NoAux
    /\ final_prompt = NoPrompt
    /\ current_parts = <<>>
    /\ conversation_history = <<>>
    /\ attempt = 0
    /\ retry_delay = 0
    /\ waits = <<>>
    /\ errs = <<>>
    /\ requests = <<>>
    /\ response = ""
    /\ raised = NoErr
    /\ fallback_taken = FALSE
    /\ process_log = NoLog
    /\ result_text = NoText

\* the three entry points, each serving a sequence of queries.  The textbook
\* directory holds one PDF and the provider is the real one: it has a key,
\* numbers every upload afresh and may refuse any of them.  The service is
\* shared by the sessions of the application (st.cache_resource), so the
\* getter of its mapping is also run by a second caller while the query
\* followed here is inside it.  process_consultation never inspects the
\* query text, so its queries are drawn from one text.
Init ==
    /\ prog \in {"consultation", "advanced", "agent"}
    /\ csv \in PipelineFiles
    /\ IdlePipeline
    /\ IdleFilter
    /\ IdlePrompt
    /\ IdleApp
    /\ IdleFormat
    /\ directory = [exists |-> TRUE, walk |-> SubSeq(WalkOrder, 1, 1)]
    /\ provider = [api_key |-> TRUE, det |-> FALSE, fail |-> {}]
    /\ NotLoaded

Next ==
    \/ \E q \in {"q1"}, h \in Histories, adv \in BOOLEAN, sm \in BOOLEAN : PC_Start(q, h, adv, sm)
    \/ \E fn \in Filenames : PC_SelectPdfOk(fn)
    \/ (prog = "consultation" /\ \E caller \in {"first", "second"} : Svc_PdfHandles(caller))
    \/ (prog = "consultation" /\ \E caller \in {"first", "second"}, raises \in BOOLEAN :
                                     Svc_Upload(caller, raises))
    \/ (prog = "consultation" /\ \E caller \in {"first", "second"} :
                                     Svc_PdfHandles_Store(caller))
    \/ PC_PdfHandlesGet
    \/ \E e \in Errors : PC_SelectPdfFail(e)
    \/ \E det \in BOOLEAN, cat \in CategoryOutputs : PC_ExtractCategoryOk(det, cat)
    \/ \E e \in Errors : PC_ExtractCategoryFail(e)
    \/ PC_PreparePrompt
    \/ PC_LoadPromptFail
    \/ \E r \in RawResponses : PC_GenerateOk(r)
    \/ \E e \in Errors : PC_GenerateFail(e)
    \/ PC_Backoff
    \/ PC_FormatAdvanced
    \/ PC_FormatSimpleOk
    \/ \E e \in Errors : PC_FormatSimpleFail(e)
    \/ PC_SimpleOk("simple_answer")
    \/ \E e \in Errors : PC_SimpleFail(e)
    \/ PC_Return
    \/ \E q \in Queries, h \in Histories : Adv_Start(q, h)
    \/ Adv_StatusRunning
    \/ Adv_StatusError
    \/ \E fn \in Filenames : Adv_SelectPdfOk(fn)
    \/ \E e \in Errors : Adv_SelectPdfFail(e)
    \/ \E det \in BOOLEAN, cat \in CategoryOutputs : Adv_ExtractCategoryOk(det, cat)
    \/ \E det \in BOOLEAN, cat \in CategoryOutputs : Adv_LoadPromptFail(det, cat)
    \/ \E e \in Errors : Adv_ExtractCategoryFail(e)
    \/ \E r \in RawResponses : Adv_GenerateOk(r)
    \/ \E e \in Errors : Adv_GenerateFail(e)
    \/ Adv_Return
    \/ (prog = "agent" /\ Agent_Main)
    \/ (prog = "agent" /\ \E raises \in BOOLEAN : Agent_Upload(raises))
    \/ (prog = "agent" /\ Agent_Uploaded)
    \/ \E q \in Queries : Agent_Start(q)
    \/ \E fn \in Filenames : Agent_SelectPdfOk(fn)
    \/ \E e \in Errors : Agent_SelectPdfFail(e)
    \/ \E det \in BOOLEAN, cat \in CategoryOutputs : Agent_ExtractCategoryOk(det, cat)
    \/ \E e \in Errors : Agent_ExtractCategoryFail(e)
    \/ \E r \in RawResponses : Agent_GenerateOk(r)
    \/ \E e \in Errors : Agent_GenerateFail(e)
    \/ Agent_NextIteration

Spec == Init /\ [][Next]_vars

\* the filter function on every dataset of at most MaxRows rows
InitFilter ==
    /\ prog = "filter"
    /\ csv = MissingFile
    /\ IdlePipeline
    /\ df \in {MissingFile} \cup {FileOf(t) : t \in Tables(MaxRows)}
    /\ f_category \in FilterCategories
    /\ f_result = NoAux
    /\ f_done = FALSE
    /\ IdleExt

NextFilter == ApplyFilter

SpecFilter == InitFilter /\ [][NextFilter]_vars

\* the prompt assembly on every template of at most MaxTemplate chunks
InitPrompt ==
    /\ prog = "assemble"
    /\ csv = MissingFile
    /\ IdlePipeline
    /\ IdleFilter
    /\ p_template \in Templates
    /\ p_hospital \in HospitalTexts
    /\ p_history \in TextHistories
    /\ p_result = <<>>
    /\ p_done = FALSE
    /\ IdleApp
    /\ IdleFormat
    /\ IdleLoader

NextPrompt == AssembleText

SpecPrompt == InitPrompt /\ [][NextPrompt]_vars

\* a chat session: the first run of the script, then inputs and buttons
InitApp ==
    /\ prog = "app"
    /\ csv = MissingFile
    /\ IdlePipeline
    /\ IdleFilter
    /\ IdlePrompt
    /\ messages = <<>>
    /\ pdf_server_status \in BOOLEAN
    /\ app_inputs = 0
    /\ app_event = Event("none", "", FALSE, "none")
    /\ app_prompt = <<>>
    /\ IdleFormat
    /\ IdleLoader

NextApp ==
    \/ \E up \in BOOLEAN, q \in Queries, adv \in BOOLEAN, answered \in BOOLEAN, e \in Errors,
          stop \in StopPoints :
          App_SimpleMode(up, q, adv, answered, e, stop)
    \/ \E q \in Queries, adv \in BOOLEAN, answered \in BOOLEAN, e \in Errors,
          stop \in StopPoints :
          App_FullModeServerDown(q, adv, answered, e, stop)
    \/ \E q \in Queries, o \in {"fails_before_prompt", "generate_fails", "generate_answers"},
          r \in RawResponses, stop \in StopPoints : App_FullMode(q, o, r, stop)
    \/ \E up \in BOOLEAN : App_Reset(up)
    \/ \E up \in BOOLEAN : App_Refresh(up)

SpecApp == InitApp /\ [][NextApp]_vars

\* the formatters on every response text
InitFormat ==
    /\ prog = "format"
    /\ csv = MissingFile
    /\ IdlePipeline
    /\ IdleFilter
    /\ IdlePrompt
    /\ IdleApp
    /\ fmt_raw \in ResponseTexts
    /\ fmt_entry = "none"
    /\ fmt_filename = ""
    /\ fmt_category = Missing
    /\ fmt_parsed = [ok |-> FALSE, value |-> EmptyObj]
    /\ fmt_out = Rendered("none", <<>>)
    /\ IdleLoader

NextFormat ==
    \/ Fmt_Advanced
    \/ \E fn \in {"fillers.pdf"}, cat \in {Missing, Val("pilleo")} : Fmt_Full(fn, cat)
    \/ \E fn \in {"fillers.pdf"}, cat \in {Missing, Val("pilleo")} : Fmt_Direct(fn, cat)

SpecFormat == InitFormat /\ [][NextFormat]_vars

\* the loaders and the PDF server on every directory and provider
InitLoader ==
    /\ prog = "loader"
    /\ csv = MissingFile
    /\ IdlePipeline
    /\ IdleFilter
    /\ IdlePrompt
    /\ IdleApp
    /\ IdleFormat
    /\ directory \in Directories
    /\ provider \in Providers(directory)
    /\ NotLoaded

NextLoader ==
    \/ Srv_Startup
    \/ \E raises \in BOOLEAN : Srv_Upload(raises)
    \/ Srv_CacheAssign
    \/ Srv_Root
    \/ Srv_GetPdfCache
    \/ \E f \in PdfFiles(directory) \cup {WalkOrder[1]} :
          Srv_GetPdfHandle([stem |-> f.stem, ext |-> f.ext])
    \/ Srv_Reload
    \/ \E caller \in {"first", "second"} : Svc_PdfHandles(caller)
    \/ \E caller \in {"first", "second"}, raises \in BOOLEAN : Svc_Upload(caller, raises)
    \/ \E caller \in {"first", "second"} : Svc_PdfHandles_Store(caller)
    \/ Agent_Main
    \/ \E raises \in BOOLEAN : Agent_Upload(raises)
    \/ Agent_Uploaded

SpecLoader == InitLoader /\ [][NextLoader]_vars

\* the loaders and the PDF server with a provider that answers a repeated
\* upload of a file the same way
InitRepeatable == InitLoader /\ provider.det

SpecRepeatable == InitRepeatable /\ [][NextLoader]_vars

\* a conversation: one of the entry points serving queries, or the chat
\* application calling them, each running as in its own specification
InitSession == Init \/ InitApp

NextSession ==
    \/ (prog \in {"consultation", "advanced", "agent"} /\ Next)
    \/ (prog = "app" /\ NextApp)

SpecSession == InitSession /\ [][NextSession]_vars

\* the status probe: the PDF server answering it, or the chat application
\* acting on its result
InitProbe == InitApp \/ InitLoader

NextProbe ==
    \/ (prog = "app" /\ NextApp)
    \/ (prog = "loader" /\ NextLoader)

SpecProbe == InitProbe /\ [][NextProbe]_vars

-----------------------------------------------------------------------------
(* Properties *)

IsFull(r) == r.contents.kind = "full"

\* the generation requests of this query that carry the assembled prompt
FullRequests == SelectSeq(requests, IsFull)

\* C1: in process_consultation (full mode) the generation call for the
\* assembled prompt is attempted at most 3 times per query; after 3
\* consecutive failures no 4th attempt is made and the last error leaves the
\* retry loop as the failure of the call.
C1_AtMostThreeAttempts ==
    prog = "consultation" =>
        /\ Len(FullRequests) <= 3
        /\ Len(errs) <= 3
        /\ Len(errs) = 3 =>
              /\ Len(FullRequests) = 3
              /\ raised = errs[3]
              /\ pc \in {"simple", "done"}

C1_Witness ==
    /\ prog = "consultation" /\ pc = "simple"
    /\ Len(errs) = 3 /\ Len(FullRequests) = 3 /\ raised = errs[3]

\* C2: in the retry loop of process_consultation, k failures (k = 0, 1, 2)
\* followed by a success hand on the response after exactly k waits; the
\* wait before attempt n+1 lasts 2 * 2^(n-1) seconds (2, then 4); no wait
\* follows the failed attempt at the cap.
C2_BackoffWaits ==
    prog = "consultation" =>
        /\ \A n \in 1..Len(waits) : waits[n] = 2 * 2^(n - 1)
        /\ Len(waits) = (IF Len(errs) = 3 THEN 2 ELSE Len(errs))
        /\ pc = "format" =>
              /\ Len(errs) \in 0..2
              /\ Len(waits) = Len(errs)
              /\ Len(FullRequests) = Len(errs) + 1
              /\ response \in RawResponses

C2_Witness ==
    /\ prog = "consultation" /\ pc = "format"
    /\ Len(errs) = 2 /\ waits = <<2, 4>>

\* C3: a non-transient failure of the generation call in process_consultation
\* is not retried: no further attempt and no backoff wait follows it.
C3_NonTransientNotRetried ==
    prog = "consultation" =>
        \A i \in 1..Len(errs) :
            ~Transient(errs[i]) => (Len(FullRequests) = i /\ Len(waits) < i)

\* C4: when the retry cap is exhausted in process_consultation the caller
\* falls back to the simple prompt, and the text handed to the user never
\* carries a raw error, also when the simple-prompt call fails.
C4_FallbackHidesRawError ==
    (prog = "consultation" /\ pc = "done" /\ Len(errs) = 3) =>
        /\ fallback_taken
        /\ requests[Len(requests)].contents.kind = "simple"
        /\ result_text.err = NoErr

\* C5: in process_full_consultation a transient failure of the generation
\* call is retried with backoff, and the fallback path is taken only after
\* the retries are exhausted.
C5_AdvancedRetriesTransient ==
    (prog = "advanced" /\ pc = "done" /\ fallback_taken
       /\ errs # <<>> /\ Transient(errs[1])) =>
        /\ Len(FullRequests) >= 2
        /\ Len(waits) = Len(FullRequests) - 1

\* C6: the category used downstream (filter input, process log, formatter
\* annotation) is absent or a member of PROCEDURE_CATEGORIES; a detected
\* category outside the set is treated as not detected.
C6_CategoryInSet ==
    /\ Truthy(category) => category.val \in PROCEDURE_CATEGORIES
    /\ Truthy(process_log.category) => process_log.category.val \in PROCEDURE_CATEGORIES

\* the mapping the entry point looks the selected filename up in
PipelineHandles ==
    IF prog = "agent" THEN agent_main.pdf_handles_dict ELSE svc_pdf_handles.map

\* C7: for a selected filename that is no key of the handle mapping the
\* pipeline goes on through category extraction, prompt assembly and
\* generation with no attachment, raising nothing and not switching to the
\* failure fallback because of it: the step that looks the filename up in
\* the mapping as it is then finds no handle and goes on to the category
\* extraction, and a query whose lookup found no handle sends no attachment.
C7_UnknownFilenameNoAttachment ==
    /\ [](( prog \in {"consultation", "agent"}
            /\ selected_filename # NoFilename /\ selected_pdf_handle = NoHandle ) =>
            /\ current_parts \in {<<>>, <<user_query>>}
            /\ \A i \in 1..Len(requests) : requests[i].attachment = NoHandle
            /\ raised \in Errors \cup {NoErr, "FileNotFoundError", "AttributeError"})
    /\ []( ( prog = "agent" /\ selected_filename # NoFilename
             /\ selected_filename \notin DOMAIN PipelineHandles.at ) =>
            selected_pdf_handle = NoHandle )
    /\ [][( /\ \/ (prog = "consultation" /\ pc = "pdf_handles" /\ pc' # pc)
               \/ (prog = "agent" /\ pc = "select" /\ selected_filename' # NoFilename)
            /\ selected_filename' \notin DOMAIN PipelineHandles.at ) =>
            ( pc' = "classify" /\ raised' = NoErr /\ ~fallback_taken'
              /\ selected_pdf_handle' = NoHandle )]_vars

C7_Witness ==
    /\ prog = "consultation" /\ pc = "format"
    /\ DOMAIN PipelineHandles.at # {}
    /\ selected_filename # NoFilename
    /\ selected_filename \notin DOMAIN PipelineHandles.at
    /\ selected_pdf_handle = NoHandle
    /\ current_parts = <<user_query>> /\ ~fallback_taken
    /\ Len(FullRequests) = 1

\* C8: when the selected filename is a key of the handle mapping the request
\* sent to the generation endpoint carries that handle (the one step 1 looked
\* up) as the attached document together with the assembled prompt; without
\* it, no attachment.
C8_RequestCarriesHandle ==
    prog \in {"consultation", "agent"} =>
        \A i \in 1..Len(requests) :
            IsFull(requests[i]) =>
                /\ requests[i].contents = final_prompt
                /\ requests[i].attachment = selected_pdf_handle

\* C9: the auxiliary text substituted into the prompt is the filter's output
\* for the classified category: only rows whose category field contains the
\* category, and the "cannot filter" message when no category was detected
\* (process_consultation and process_full_consultation).
C9_AuxTextIsFilterOutput ==
    (prog \in {"consultation", "advanced"} /\ final_prompt.kind = "full" /\ csv.exists) =>
        LET aux == final_prompt.hospital_list IN
        IF ~Truthy(category)
        THEN aux.kind = "cannot_filter"
        ELSE \A i \in 1..Len(aux.rows) :
                /\ aux.rows[i].category.some
                /\ Contains(aux.rows[i].category.val, category.val)

\* positions of the rows whose category field contains cat
MatchIdx(rows, cat) ==
    { i \in 1..Len(rows) : rows[i].category.some /\ Contains(rows[i].category.val, cat) }

\* C10: load_and_filter_hospitals returns exactly min(N, 5) rendered rows,
\* the first ones in dataset order, when the category matches N >= 1 rows.
C10_FirstMinN5Rows ==
    (f_done /\ df.exists /\ Truthy(f_category)
       /\ MatchIdx(df.rows, f_category.val) # {}) =>
        LET M == MatchIdx(df.rows, f_category.val)
            N == Cardinality(M)
        IN /\ f_result.kind = "table"
           /\ Len(f_result.rows) = (IF N <= 5 THEN N ELSE 5)
           /\ \A j \in 1..Len(f_result.rows) :
                 \E i \in M : /\ Cardinality({k \in M : k <= i}) = j
                              /\ f_result.rows[j] = df.rows[i]

C10_Witness ==
    /\ f_done /\ df.exists /\ Truthy(f_category)
    /\ Cardinality(MatchIdx(df.rows, f_category.val)) = 6
    /\ f_result.kind = "table" /\ Len(f_result.rows) = 5

\* C11: called with an absent category (None or the empty string) the
\* auxiliary data filter of every pipeline returns the fixed "cannot filter"
\* message, whatever the dataset holds and also when the dataset file is
\* missing, as a normal return value (nothing is raised).
C11_AbsentCategoryCannotFilter ==
    (prog \in {"consultation", "agent"} /\ hospital_info # NoAux /\ ~Truthy(category)) =>
        /\ hospital_info = AuxText("cannot_filter", NoneStr, <<>>, NoErr)
        /\ (pc = "generate" /\ errs = <<>>) => raised = NoErr

\* C12: with the dataset file missing (and a category to filter by) the
\* auxiliary data filter returns the one fixed "dataset unavailable" message,
\* carrying nothing of the underlying error, nothing is raised, and the
\* prompt is assembled with that message as the auxiliary text.
C12_MissingDatasetFixedMessage ==
    (prog \in {"consultation", "agent"} /\ hospital_info # NoAux
       /\ ~csv.exists /\ Truthy(category)) =>
        /\ hospital_info = AuxText("file_missing", NoneStr, <<>>, NoErr)
        /\ final_prompt.kind = "full"
        /\ final_prompt.hospital_list = hospital_info

\* C13: for every template, auxiliary text and conversation history, also
\* ones whose content spells a placeholder token, the assembled prompt holds
\* none of ((HOSPITAL_LIST)), ((SUBMITTED_PHOTOS)), ((CONVERSATION_HISTORY)).
C13_NoPlaceholderRemains ==
    p_done => \A i \in 1..Len(p_result) : p_result[i] \notin Placeholders

RECURSIVE ListedTurns(_)
\* the turns a serialized history lists, read off the text left to right
ListedTurns(text) ==
    IF Len(text) < 4 THEN <<>>
    ELSE IF Head(text) = "{'role': '"
    THEN LET rest == SubSeq(text, 4, Len(text))
             n == CHOOSE i \in 1..Len(rest) :
                     rest[i] = "'}" /\ \A j \in 1..(i - 1) : rest[j] # "'}"
         IN <<Turn(text[2], SubSeq(rest, 1, n - 1))>>
               \o ListedTurns(SubSeq(rest, n + 1, Len(rest)))
    ELSE ListedTurns(Tail(text))

\* C14: the history serialized into the prompt of a full-mode query lists
\* every turn of the session so far, the earlier user and assistant turns and
\* then the current user turn, in insertion order, none dropped, duplicated
\* or reordered (the assistant's answer is appended after the call, and not
\* at all by a run that ends in the st.* call showing it); turns left by
\* earlier runs that ended early are listed like any other.
C14_PromptListsAllTurnsInOrder ==
    (app_event.kind = "full" /\ app_event.prompt_sent) =>
        LET k == IF app_event.stopped = "answer"
                 THEN Len(messages) ELSE Len(messages) - 1 IN
        /\ k >= 1
        /\ messages[k] = Turn("user", <<app_event.prompt>>)
        /\ ListedTurns(app_prompt) = SubSeq(messages, 1, k)

C14_Witness ==
    /\ app_event.kind = "full" /\ app_event.prompt_sent
    /\ Len(messages) = 4
    /\ messages[1].role = "user" /\ messages[2].role = "assistant"
    /\ messages[3].content # messages[1].content
    /\ Len(ListedTurns(app_prompt)) = 3

IsPrefix(s, t) == Len(s) <= Len(t) /\ SubSeq(t, 1, Len(s)) = s

\* C15: the session history is append-only: every run of the script (simple
\* mode, full mode, fallback, failed queries, status refresh) leaves every
\* earlier turn at its position with its content, and the history gets
\* shorter only by the reset button, which empties it.
C15_HistoryAppendOnly ==
    [][ \/ IsPrefix(messages, messages')
        \/ (app_event'.kind = "reset" /\ messages' = <<>>) ]_vars

\* a second input after a reset: the session holds the turns of that input only
C15_Witness ==
    /\ app_inputs = 2 /\ Len(messages) = 2
    /\ app_event.kind = "full" /\ ~app_event.prompt_sent
    /\ messages[1].role = "user" /\ messages[2] = Turn("assistant", markdown(AdvFallbackText))

FullEntry == fmt_entry = "process_full_consultation"
AdvancedEntry == fmt_entry = "format_consultation_response"

\* some line of the text t carries the label l
HasLabel(t, l) == \E i \in 1..Len(t.lines) : t.lines[i].label = l

\* C16: when the model output of the full-mode pipeline does not parse, the
\* text shown holds the raw model text verbatim (as received or as cleaned),
\* in a fallback wrapper that names the attachment and the category.
C16_ParseFailureShowsRawText ==
    (FullEntry /\ clean_response(fmt_raw) # <<>> /\ ~fmt_parsed.ok) =>
        /\ \E i \in 1..Len(fmt_out.lines) :
              fmt_out.lines[i].raw \in {fmt_raw, clean_response(fmt_raw)}
        /\ \E i \in 1..Len(fmt_out.lines) :
              fmt_out.lines[i].label = "reference_pdf" /\ fmt_out.lines[i].value = fmt_filename
        /\ HasLabel(fmt_out, "category")

\* the tier of the fixed thresholds: 8 and above high, 6 and above medium
ThresholdTier(n) == IF n >= 8 THEN "green" ELSE IF n >= 6 THEN "yellow" ELSE "orange"

\* C17: every formatter renders a confidence score in the tier of the same
\* thresholds: score >= 8 high (green), 6 <= score < 8 medium (yellow),
\* score < 6 low (orange); each rendered option carries the tier of its score.
C17_SameTierThresholds ==
    fmt_out.raised = NoErr =>
        \A i \in 1..Len(fmt_out.lines) :
            fmt_out.lines[i].label = "tier" =>
                \E n \in 0..MaxScore :
                    /\ fmt_out.lines[i + 2].label = "confidence_score"
                    /\ fmt_out.lines[i + 2].value = ToString(n)
                    /\ fmt_out.lines[i].value = ThresholdTier(n)

\* the document of a text that holds exactly one
HasOneDoc(text) == Cardinality({i \in 1..Len(text) : text[i].c = "doc"}) = 1
DocOf(text) == text[CHOOSE i \in 1..Len(text) : text[i].c = "doc"].doc

\* C18: for every JSON document J, fenced J (json tag, with or without
\* whitespace around) is parsed to the same value as bare J by both parsing
\* entry points, and cleaning leaves bare J unchanged.
C18_FencedParsesLikeUnfenced ==
    ((FullEntry \/ AdvancedEntry) /\ HasOneDoc(fmt_raw)) =>
        LET d == DocOf(fmt_raw) IN
        /\ fmt_raw \in (BareForms(d) \cup TaggedFenceForms(d)) =>
              (fmt_parsed.ok /\ fmt_parsed.value = d)
        /\ clean_response(<<Doc(d)>>) = <<Doc(d)>>

\* every value of the analysis has the type of the schema
PlainAnalysis(a) ==
    /\ a.t = "obj" /\ a.confidence_score.t = "num" /\ a.procedure_plan.t = "obj"
    /\ a.citation # Val("")
PlainIssue(issue) ==
    /\ issue.t = "obj" /\ issue.recommended_options.t = "list"
    /\ issue.detailed_analysis.t = "list"
    /\ \A j \in 1..Len(issue.detailed_analysis.items) :
          PlainAnalysis(issue.detailed_analysis.items[j])
\* an object of the schema, fields present or missing, none wrongly typed
PlainData(d) ==
    /\ d.t = "obj" /\ ~d.raw_response.has /\ d.skin_issues.t = "list"
    /\ d.analyzed_data.t = "obj" /\ d.analyzed_data.submitted_photos.t = "list"
    /\ \A j \in 1..Len(d.skin_issues.items) : PlainIssue(d.skin_issues.items[j])

\* C19: when parsed model output of the schema is rendered, with any of its
\* fields missing, the rendering does not fail and no rendered line is blank:
\* a missing field shows a fixed placeholder.
C19_MissingFieldsGetPlaceholders ==
    ((FullEntry \/ AdvancedEntry) /\ fmt_parsed.ok /\ PlainData(fmt_parsed.value)) =>
        /\ fmt_out.kind \in {"chat", "advanced"}
        /\ \A i \in 1..Len(fmt_out.lines) : fmt_out.lines[i].value # ""

\* C20: format_consultation_response and the formatting step of
\* process_full_consultation hand a text to their caller for every model
\* output (any JSON value, wrongly typed fields, malformed text): an
\* exception of the rendering is turned into a text, never handed on.
C20_FormattingNeverRaises ==
    (FullEntry \/ AdvancedEntry) =>
        /\ fmt_out.raised = NoErr
        /\ fmt_out.kind # "raised"
        /\ fmt_out.lines # <<>>

\* the rendering of a parsed number raised inside step 8 and became the text
\* of its except branch
C20_Witness ==
    /\ FullEntry /\ fmt_parsed.ok /\ fmt_parsed.value.t = "num"
    /\ format_consultation_json_to_chat(fmt_parsed.value, fmt_filename, fmt_category).raised = "TypeError"
    /\ fmt_out.kind = "format_error_wrapper"
    /\ HasLabel(fmt_out, "format_error")

-----------------------------------------------------------------------------
(* Properties of the corpus loader and the PDF server *)

\* the key under which the loader stores a file
FilenameOf(f) == [stem |-> f.stem, ext |-> f.ext]

\* C23: in every run of the loader (server start-up, reload, the service's
\* first use, the command-line program's start) an upload that fails skips
\* that file alone: the returned mapping holds exactly the files whose
\* upload succeeded, each under its filename (the files its handles belong
\* to are the succeeded files, no other and no fewer), and the run returns
\* a mapping whatever fails.
C23_FailedUploadSkipsOnlyThatFile ==
    \A i \in 1..Len(runs) :
        /\ {runs[i].mapping.at[x].file : x \in DOMAIN runs[i].mapping.at} = runs[i].ok
        /\ \A x \in DOMAIN runs[i].mapping.at :
              FilenameOf(runs[i].mapping.at[x].file) = x

\* C24: a run of the loader on a missing directory or on one without PDF
\* files returns the empty mapping, and a caller that got the empty mapping
\* goes on to answer queries: the server is up with an empty cache, the
\* service keeps the empty mapping, the command-line program enters its
\* chat loop.
C24_EmptyMappingIsNotFatal ==
    /\ \A i \in 1..Len(runs) :
          PdfFiles(directory) = {} => DOMAIN runs[i].mapping.at = {}
    /\ (agent_main.state \notin {"not_started", "uploading"}
          /\ DOMAIN agent_main.pdf_handles_dict.at = {})
          => agent_main.state = "chat_loop"

C26_CacheImmutableOncePopulated ==
    [][ /\ DOMAIN pdf_cache.at # {} =>
              get_cached_pdf_handles(pdf_cache').at = get_cached_pdf_handles(pdf_cache).at
        /\ svc_pdf_handles.loaded => svc_pdf_handles'.map.at = svc_pdf_handles.map.at
        /\ \A f \in PdfFiles(directory) :
              Cardinality({i \in 1..Len(runs') :
                             /\ runs'[i].loader \in {"startup_event", "reload_pdfs"}
                             /\ f \in runs'[i].ok}) <= 1 ]_vars

\* C30: in every run of the loader the mapping has one entry per file whose
\* upload succeeded: as many entries as successful uploads, and looking up
\* the filename of an uploaded file gives that file's handle, also when
\* files of different subdirectories have the same name.
C30_OneEntryPerUploadedFile ==
    \A i \in 1..Len(runs) :
        /\ Cardinality(DOMAIN runs[i].mapping.at) = Cardinality(runs[i].ok)
        /\ \A f \in runs[i].ok :
              /\ FilenameOf(f) \in DOMAIN runs[i].mapping.at
              /\ runs[i].mapping.at[FilenameOf(f)].file = f

-----------------------------------------------------------------------------
(* Properties of the pipelines' failure handling *)

\* C29: process_full_consultation returns its process log with the success
\* flag set; success is true exactly when every step through formatting
\* completed, and then the log has no error entry and the returned text is
\* the formatted model answer; success is false exactly when a step failed,
\* and then the log has an error entry, no entry of a later step, and the
\* returned text is the fallback text.
C29_SuccessFlagTellsCompletion ==
    (prog = "advanced" /\ pc = "done") =>
        /\ process_log.success \in {"true", "false"}
        /\ process_log.success = "true" =>
              /\ process_log.error = NoErr
              /\ "8_formatting" \in process_log.steps
              /\ strip_fence(response) = "JSON"
              /\ result_text = Text("chat_formatted", "JSON", NoErr)
        /\ process_log.success = "false" =>
              /\ process_log.error # NoErr
              /\ "8_formatting" \notin process_log.steps
              /\ result_text = AdvFallbackText

\* C22: when the text returned for a query comes from a fallback path (the
\* simple-prompt fallback of process_consultation after a failure of the
\* full mode, the canned fallback of process_full_consultation) it is one
\* of the texts that end with the note that the simple mode answered, and
\* it carries no error string of the failed call.
C22_FallbackTextIsMarked ==
    (prog \in {"consultation", "advanced"} /\ pc = "done" /\ fallback_taken) =>
        /\ result_text.kind \in {"simple_formatted", "canned_fallback"}
        /\ result_text.err = NoErr

-----------------------------------------------------------------------------
(* Properties of the chat application's turns *)

\* C28: every chat input appends exactly two turns to the session history,
\* the user turn with the input and then one assistant turn, in the simple
\* mode, in the full mode and in the fallback with the server down, whether
\* the answer is a model answer, a fallback text or an error text; so the
\* history alternates user / assistant from a user turn on and its length
\* is even between inputs.
C28_TwoTurnsPerQuery ==
    /\ [](/\ Len(messages) % 2 = 0
          /\ \A i \in 1..Len(messages) :
                messages[i].role = IF i % 2 = 1 THEN "user" ELSE "assistant")
    /\ [][ app_inputs' = app_inputs + 1 =>
             /\ Len(messages') = Len(messages) + 2
             /\ SubSeq(messages', 1, Len(messages)) = messages
             /\ messages'[Len(messages) + 1] = Turn("user", <<app_event'.prompt>>)
             /\ messages'[Len(messages) + 2].role = "assistant" ]_vars

\* C21: a failed query does not end the conversation.  Whatever step fails
\* (server probe, selection, classification, template load, generation,
\* parsing, formatting), process_consultation and process_full_consultation
\* do not raise: the call is never left without a result, it goes on to its
\* return and returns a text, and the next query is accepted.  In the chat
\* application the last turn after an input is an assistant turn and the
\* next input is handled.
C21_FailedQueryKeepsSession ==
    /\ prog \in {"consultation", "advanced"} =>
          /\ pc # "crashed"
          /\ pc = "done" => result_text # NoText
          /\ (raised # NoErr /\ pc = "done") => fallback_taken
          /\ pc # "idle" => ENABLED Next
          /\ (pc = "idle" /\ queries < MaxQueries) => ENABLED Next
    /\ prog = "app" =>
          /\ messages # <<>> => messages[Len(messages)].role = "assistant"
          /\ app_inputs < MaxQueries =>
                ENABLED (\E q \in Queries, o \in {"generate_answers"}, r \in RawResponses :
                            App_FullMode(q, o, r, "none"))

\* C27: a status probe that is answered reports whether the corpus is ready
\* (status running exactly when the server's start-up ran its load) and
\* cached_pdfs equal to the number of entries of the cache and to the
\* length of pdf_list, which lists the cached filenames; and a chat input
\* runs process_full_consultation only in a run whose probe succeeded: when
\* the probe failed, a full-mode input takes the simple fallback and sends
\* no full-mode prompt.
C27_ProbeGatesFullPipeline ==
    [][ /\ (srv_reply' # srv_reply /\ srv_reply'.op = "root") =>
              /\ srv_reply'.code = 200
              /\ (srv_reply'.status = "running" <=>
                    \E i \in 1..Len(runs) : runs[i].loader = "startup_event")
              /\ srv_reply'.cached_pdfs = Cardinality(DOMAIN pdf_cache.at)
              /\ srv_reply'.cached_pdfs = Len(srv_reply'.pdf_list)
              /\ {srv_reply'.pdf_list[k] : k \in 1..Len(srv_reply'.pdf_list)} = DOMAIN pdf_cache.at
        /\ app_inputs' = app_inputs + 1 =>
              /\ app_event'.kind = "full" => pdf_server_status'
              /\ ~pdf_server_status' =>
                    /\ app_event'.kind \in {"simple", "fallback"}
                    /\ ~app_event'.prompt_sent
                    /\ app_prompt' = <<>> ]_vars

====
